---- MODULE Spec2Model ----
(***************************************************************************)
(* A model of classi-cine: the M3U playlist (playlist.rs, path.rs), the    *)
(* pair tokenizer (tokenize.rs, tokens.rs, bloom.rs), the interactive      *)
(* classification loop (app.rs, classifier.rs) and the VLC controller      *)
(* thread (vlc.rs).                                                        *)
(*                                                                         *)
(* Strings are sequences of one-character strings, so that formatting and  *)
(* parsing are modelled by what they do to the characters.  A path is the  *)
(* sequence of its components below the root directory "/".                *)
(***************************************************************************)
EXTENDS Integers, Sequences, FiniteSets, TLC

VARIABLES
    \* playlist.rs: M3uPlaylist and the file behind it
    pl_file,        \* the bytes of the playlist file, or Absent
    pl_open,        \* TRUE once M3uPlaylist::open has returned a playlist
    pl_result,      \* what the last M3uPlaylist::open returned, "none" before it
    pl_entries,     \* M3uPlaylist.entries
    pl_appends,     \* number of add_positive/add_negative calls made so far
    \* tokenize.rs: PairTokenizer::new and PairTokenizer::tokenize
    tk_pc,          \* "idle", "train" (in the main loop of new) or "done"
    tk_corpus,      \* the training strings
    token_map,      \* TokenMap: token id t has the string token_map[t + 1]
    tk_strings,     \* the training sequences (Vec<Tokens>)
    tk_counts,      \* PairCounts, the shards taken together: Pair -> count
    merges,         \* the merge log: <<pair, merged>>
    tk_out,         \* the last call of tokenize: its argument and its result
    frequent_ngrams,      \* App.frequent_ngrams: None until generate_ngrams ran
    \* normalize.rs: one call of normalize
    nz_file,        \* the path string normalize is called with
    nz_ret,         \* what it returned, None before the call
    \* app.rs: App in build mode, and the main thread inside classification_loop
    app_entries,    \* App.entries, the candidate pool
    batch_size,     \* App.batch_size
    file_size_classifier, \* Option<FileSizeClassifier>
    file_age_classifier,  \* Option<FileAgeClassifier>
    dir_size_classifier,  \* Option<DirSizeClassifier>
    naive_bayes,    \* App.naive_bayes
    entries_to_process,   \* the entries drained by the current iteration
    position,       \* how many of them the for loop has taken so far
    pc,             \* "idle", "loop" (top of the while), "for", "wait", "exit", "join";
                    \* "client" for an owner of the controller other than the loop
    loop_result,    \* "running", or what classification_loop returned: "Ok", "Err"
    \* vlc.rs: the two channels and the controller thread (VlcBackground)
    control_ch,     \* ControlMessages sent and not yet received
    status_ch,      \* StatusMessages sent and not yet received
    current_playback,     \* VlcBackground.current_playback
    bg_pc,          \* "idle", "control" (before handle_control) or "poll"
    children,       \* player subprocesses spawned and not yet killed and reaped
    most_children,  \* the greatest number of them alive at once so far
    \* history of the run
    presented,      \* paths for which StartPlayback was sent, in order
    outcomes,       \* what became of each of them: "Positive", "Negative", "Skipped", "Io"
    rescored,       \* the aggregator has run since naive_bayes was last trained
    startup_polls,  \* polls of the current playback that brought no file name
    mismatched,     \* paths whose first reported file name was another name
    collected       \* the paths collect_files put into the pool

plVars == <<pl_file, pl_open, pl_result, pl_entries, pl_appends>>

tokVars == <<tk_pc, tk_corpus, token_map, tk_strings, tk_counts, merges, tk_out,
             frequent_ngrams>>

normVars == <<nz_file, nz_ret>>

appVars == <<app_entries, batch_size, file_size_classifier, file_age_classifier,
                   dir_size_classifier, naive_bayes,
             entries_to_process, position, pc, loop_result>>

vlcVars == <<control_ch, status_ch, current_playback, bg_pc, children,
            most_children>>

appVars_but_pc == <<app_entries, batch_size, file_size_classifier, file_age_classifier,
                   dir_size_classifier, naive_bayes,
                    entries_to_process, position, loop_result>>

histVars == <<presented, outcomes, rescored, startup_polls, mismatched, collected>>

vars == <<pl_file, pl_open, pl_result, pl_entries, pl_appends,
          tk_pc, tk_corpus, token_map, tk_strings, tk_counts, merges, tk_out,
          frequent_ngrams, nz_file, nz_ret,
          app_entries, batch_size, file_size_classifier, file_age_classifier,
          dir_size_classifier, naive_bayes,
          entries_to_process, position, pc, loop_result,
          control_ch, status_ch, current_playback, bg_pc, children, most_children,
          presented, outcomes, rescored, startup_polls, mismatched, collected>>

\* The content of a file that does not exist (no sequence of characters)
Absent == <<"<absent>">>

\* ------------------------------------------------------------------------
\* Sequence helpers
\* ------------------------------------------------------------------------

Last(s) == s[Len(s)]

Front(s) == SubSeq(s, 1, Len(s) - 1)

RECURSIVE Flatten(_)
Flatten(ss) == IF ss = <<>> THEN <<>> ELSE Head(ss) \o Flatten(Tail(ss))

\* str::starts_with
starts_with(s, p) == Len(s) >= Len(p) /\ SubSeq(s, 1, Len(p)) = p

\* str::strip_prefix, for a string known to start with p
strip_prefix(s, p) == SubSeq(s, Len(p) + 1, Len(s))

\* char::is_whitespace, over the characters the model uses
Whitespace == {" ", "\t", "\r", "\n"}

RECURSIVE trim_start(_)
trim_start(s) ==
    IF s # <<>> /\ Head(s) \in Whitespace THEN trim_start(Tail(s)) ELSE s

RECURSIVE trim_end(_)
trim_end(s) ==
    IF s # <<>> /\ Last(s) \in Whitespace THEN trim_end(Front(s)) ELSE s

\* str::trim
trim(s) == trim_end(trim_start(s))

\* Split s at every occurrence of the character c (str::split).
RECURSIVE split(_, _)
split(s, c) ==
    IF \A i \in 1..Len(s) : s[i] # c THEN <<s>>
    ELSE LET i == CHOOSE k \in 1..Len(s) : s[k] = c /\ \A j \in 1..(k - 1) : s[j] # c
         IN  <<SubSeq(s, 1, i - 1)>> \o split(SubSeq(s, i + 1, Len(s)), c)

\* BufRead::lines: split at "\n", a final empty piece is no line, and a "\r"
\* before the "\n" belongs to the line ending.
lines(content) ==
    LET pieces == split(content, "\n")
        kept   == IF Last(pieces) = <<>> THEN Front(pieces) ELSE pieces
        terminated(i) == i < Len(pieces)
    IN  [i \in 1..Len(kept) |->
            IF terminated(i) /\ kept[i] # <<>> /\ Last(kept[i]) = "\r"
            THEN Front(kept[i]) ELSE kept[i]]

\* ------------------------------------------------------------------------
\* path.rs
\* ------------------------------------------------------------------------

CurDir == <<".">>
ParentDir == <<".", ".">>

\* Path::components of the string s: empty components and "." are dropped.
components(s) ==
    SelectSeq(split(s, "/"), LAMBDA c : c # <<>> /\ c # CurDir)

\* Path::is_absolute
is_absolute(s) == s # <<>> /\ Head(s) = "/"

\* normalize_path for an absolute path: the stack starts with RootDir, so a
\* ".." that cannot pop a normal component is dropped.
RECURSIVE normalize_stack(_, _)
normalize_stack(stack, comps) ==
    IF comps = <<>> THEN stack
    ELSE LET c == Head(comps) IN
         IF c = CurDir THEN normalize_stack(stack, Tail(comps))
         ELSE IF c = ParentDir
              THEN normalize_stack(IF stack # <<>> THEN Front(stack) ELSE stack,
                                   Tail(comps))
              ELSE normalize_stack(Append(stack, c), Tail(comps))

normalize_path(comps) == normalize_stack(<<>>, comps)

\* AbsPath::from_abs_path
from_abs_path(comps) == normalize_path(comps)

\* pathdiff::diff_paths(path, base) for two normalized absolute paths: drop the
\* common prefix, climb out of what is left of base, descend into the rest.
RECURSIVE diff_paths(_, _)
diff_paths(path, base) ==
    IF path # <<>> /\ base # <<>> /\ Head(path) = Head(base)
    THEN diff_paths(Tail(path), Tail(base))
    ELSE [i \in 1..Len(base) |-> ParentDir] \o path

\* PathBuf::to_string_lossy of a relative path: components joined by "/".
RECURSIVE join_components(_)
join_components(comps) ==
    IF comps = <<>> THEN <<>>
    ELSE IF Len(comps) = 1 THEN Head(comps)
    ELSE Head(comps) \o <<"/">> \o join_components(Tail(comps))

\* AbsPath::to_string(PathDisplayContext::RelativeTo(base))
to_string(abs_path, base) == join_components(diff_paths(abs_path, base))

\* ------------------------------------------------------------------------
\* playlist.rs
\* ------------------------------------------------------------------------

M3U_HEADER == <<"#", "E", "X", "T", "M", "3", "U">>
NEGATIVE_PREFIX == <<"#", "N", "E", "G", "A", "T", "I", "V", "E", ":">>

Positive(path) == [kind |-> "Positive", path |-> path]
Negative(path) == [kind |-> "Negative", path |-> path]

\* The directory of the playlist file, /r
PlaylistRoot == << <<"r">> >>

\* writeln!(file, ...) on a file opened for append
writeln(file, line) == file \o line \o <<"\n">>

\* playlist.root().join(PathBuf::from(text)) followed by AbsPath::from_abs_path:
\* an absolute text replaces the root.
join_root(root, text) ==
    from_abs_path((IF is_absolute(text) THEN <<>> ELSE root) \o components(text))

\* The loop of M3uPlaylist::open over the lines after the header.
RECURSIVE load_entries(_, _)
load_entries(root, ls) ==
    IF ls = <<>> THEN <<>>
    ELSE LET line == Head(ls)
             rest == load_entries(root, Tail(ls))
         IN  IF starts_with(line, NEGATIVE_PREFIX)
             THEN <<Negative(join_root(root, trim(strip_prefix(line, NEGATIVE_PREFIX))))>>
                  \o rest
             ELSE IF ~starts_with(line, <<"#">>)
                  THEN <<Positive(join_root(root, trim(line)))>> \o rest
                  ELSE rest

\* M3uPlaylist::open: the file after the call and the entries of the playlist it
\* returns, or an error.
open(file, root) ==
    IF file = Absent
    THEN [file |-> writeln(<<>>, M3U_HEADER), result |-> "Ok", entries |-> <<>>]
    ELSE LET ls == lines(file) IN
         IF ls = <<>>
         THEN [file |-> file, result |-> "EmptyPlaylistFile", entries |-> <<>>]
         ELSE IF trim(ls[1]) # M3U_HEADER
              THEN [file |-> file, result |-> "MissingHeader", entries |-> <<>>]
              ELSE [file |-> file, result |-> "Ok",
                    entries |-> load_entries(root, Tail(ls))]

\* The line add_positive writes for abs_path
positive_line(root, abs_path) == to_string(from_abs_path(abs_path), root)

\* The line add_negative writes for abs_path
negative_line(root, abs_path) ==
    NEGATIVE_PREFIX \o to_string(from_abs_path(abs_path), root)

\* Playlist::add_positive.  The entry is pushed before the file is opened for
\* append, so it stays in memory when the write fails (io_ok = FALSE).
add_positive(entries, file, root, abs_path, io_ok) ==
    [entries |-> Append(entries, Positive(from_abs_path(abs_path))),
     file    |-> IF io_ok THEN writeln(file, positive_line(root, abs_path)) ELSE file,
     result  |-> IF io_ok THEN "Ok" ELSE "Io"]

\* Playlist::add_negative
add_negative(entries, file, root, abs_path, io_ok) ==
    [entries |-> Append(entries, Negative(from_abs_path(abs_path))),
     file    |-> IF io_ok THEN writeln(file, negative_line(root, abs_path)) ELSE file,
     result  |-> IF io_ok THEN "Ok" ELSE "Io"]

\* ------------------------------------------------------------------------
\* tokens.rs, bloom.rs
\* ------------------------------------------------------------------------

\* The width of the pair mask (u128)
BloomBits == 128

\* The hash behind Pair::mask and Bloom::mask.  The code's hashers are opaque;
\* this stand-in makes some distinct pairs share a bit (<<x, y>> and <<y, x>>
\* among others), as any hash into 128 bits does.
hash(pair) == pair[1] + pair[2]

\* Pair::mask / Bloom::mask: the one bit of the pair, as a set of bit positions
mask(pair) == {hash(pair) % BloomBits}

\* Tokens::pairs of tokens.rs: every adjacent pair, in order
all_pairs(tokens) ==
    [i \in 1..(Len(tokens) - 1) |-> <<tokens[i], tokens[i + 1]>>]

\* calc_pair_mask that leaves out the last pair
calc_pair_mask_without_last(tokens) ==
    UNION {mask(all_pairs(tokens)[i]) : i \in 1..(Len(tokens) - 2)}

\* Tokens::calc_pair_mask
calc_pair_mask(tokens) ==
    UNION {mask(all_pairs(tokens)[i]) : i \in 1..(Len(tokens) - 1)}

\* A Tokens value
Tokens(tokens) == [tokens |-> tokens, pair_mask |-> calc_pair_mask(tokens)]

\* Tokens::contains(&Pair)
contains(t, pair) == (t.pair_mask \cap mask(pair)) # {}

\* Bloom::contains, as used by Tokens::contains(&Bloom): every bit of the
\* argument is set
bloom_contains(t, bloom) == bloom \subseteq t.pair_mask

\* from_replace with the comparison of the second token forgotten
RECURSIVE replace_from_first_only(_, _, _, _)
replace_from_first_only(from, i, pair, c) ==
    IF i > Len(from) THEN <<>>
    ELSE IF pair[1] = from[i] /\ (i + 1) <= Len(from)
         THEN <<c>> \o replace_from_first_only(from, i + 2, pair, c)
         ELSE <<from[i]>> \o replace_from_first_only(from, i + 1, pair, c)

\* Tokens::from_replace: the new token sequence (left to right, non-overlapping)
RECURSIVE replace_from(_, _, _, _)
replace_from(from, i, pair, c) ==
    IF i > Len(from) THEN <<>>
    ELSE IF pair[1] = from[i] /\ (i + 1) <= Len(from) /\ pair[2] = from[i + 1]
         THEN <<c>> \o replace_from(from, i + 2, pair, c)
         ELSE <<from[i]>> \o replace_from(from, i + 1, pair, c)

from_replace(from, pair, c) == Tokens(replace_from(from.tokens, 1, pair, c))

\* The boolean from_replace returns: something was replaced
from_replace_changed(from, pair, c) ==
    Len(from_replace(from, pair, c).tokens) # Len(from.tokens)

\* TokenMap::get_str
get_str(map, token) == map[token + 1]

\* TokenMap::create_token: the next id is the number of tokens so far
create_token(map, str) == Append(map, str)

\* str_token.get(s): the id of the string, or -1
lookup(map, str) ==
    IF \E i \in 1..Len(map) : map[i] = str
    THEN (CHOOSE i \in 1..Len(map) : map[i] = str) - 1
    ELSE -1

\* get_or_create_token without the lookup
get_or_create_token_always_creates(map, str) == create_token(map, str)

\* TokenMap::get_or_create_token: the map after the call
get_or_create_token(map, str) ==
    IF lookup(map, str) >= 0 THEN map ELSE create_token(map, str)

\* TokenMap::merge_create_token: the string of the merged token
merge_create_token(map, pair) == get_str(map, pair[1]) \o get_str(map, pair[2])

\* Tokens::to_string
tokens_to_string(map, tokens) ==
    Flatten([i \in 1..Len(tokens) |-> get_str(map, tokens[i])])

\* The reserved tokens of TokenMap::new(special_chars): unknown has id 0, the
\* special characters follow.
UnknownToken == 0
UnknownStr == <<"<unknown>">>

\* special_chars with the path separator forgotten
special_chars_without_separator == <<" ">>

\* special_chars of PairTokenizer::new: ' ' and MAIN_SEPARATOR
special_chars == <<" ", "/">>

token_map_new(specials) ==
    <<UnknownStr>> \o [i \in 1..Len(specials) |-> <<specials[i]>>]

\* The id of the last special token
last_special(specials) == Len(specials)

\* Tokens::pairs(&token_map): the adjacent pairs neither member of which is a
\* reserved token
pairs(tokens) ==
    SelectSeq(all_pairs(tokens),
              LAMBDA p : p[1] > last_special(special_chars)
                         /\ p[2] > last_special(special_chars))

\* Tokens::from_str_and_create: the token map after the characters of s were
\* added to it
RECURSIVE create_chars(_, _)
create_chars(map, str) ==
    IF str = <<>> THEN map
    ELSE create_chars(get_or_create_token(map, <<Head(str)>>), Tail(str))

\* Tokens::from_str_and_create, the Tokens it returns (map already holds the
\* characters) and Tokens::from_str_or_unknown
from_str_or_unknown(map, str) ==
    Tokens([i \in 1..Len(str) |->
               IF lookup(map, <<str[i]>>) >= 0 THEN lookup(map, <<str[i]>>)
               ELSE UnknownToken])

\* ------------------------------------------------------------------------
\* tokenize.rs
\* ------------------------------------------------------------------------

\* update_pair with a count of zero left in the map
update_pair_keeps_zero(counts, pair, delta) ==
    IF pair \in DOMAIN counts
    THEN [counts EXCEPT ![pair] = counts[pair] + delta]
    ELSE [q \in DOMAIN counts \cup {pair} |-> IF q = pair THEN delta ELSE counts[q]]

\* PairUpdater::update_pair on one map.  Counts stay far from the i64 limits,
\* where saturating_add is the sum.  (c is the map the call finds; binding
\* it makes the argument be evaluated once.)
update_pair(counts, pair, delta) ==
    CHOOSE updated \in
        {IF pair \in DOMAIN c
         THEN IF c[pair] + delta = 0
              THEN [q \in DOMAIN c \ {pair} |-> c[q]]
              ELSE [c EXCEPT ![pair] = c[pair] + delta]
         ELSE [q \in DOMAIN c \cup {pair} |-> IF q = pair THEN delta ELSE c[q]] :
         c \in {counts}} : TRUE

\* update_pair(p, delta) for every pair of a sequence of pairs, in order
RECURSIVE update_pairs(_, _, _)
update_pairs(counts, ps, delta) ==
    CHOOSE updated \in
        {IF p = <<>> THEN counts
         ELSE update_pairs(update_pair(counts, Head(p), delta), Tail(p), delta) :
         p \in {ps}} : TRUE

\* PairCounts::apply: merge a delta map into the counts
RECURSIVE apply(_, _)
apply(counts, delta) ==
    CHOOSE applied \in
        {IF DOMAIN d = {} THEN counts
         ELSE LET p == CHOOSE q \in DOMAIN d : TRUE IN
              apply(update_pair(counts, p, d[p]), [q \in DOMAIN d \ {p} |-> d[q]]) :
         d \in {delta}} : TRUE

EmptyCounts == [q \in {} |-> 0]

\* (count, pair) tuples compare lexicographically
tuple_less(x, y) ==
    \/ x[1] < y[1]
    \/ x[1] = y[1] /\ x[2][1] < y[2][1]
    \/ x[1] = y[1] /\ x[2][1] = y[2][1] /\ x[2][2] < y[2][2]

\* max comparing the pairs only
max_by_pair(counts) ==
    CHOOSE x \in {<<counts[p], p>> : p \in DOMAIN counts} :
        \A y \in {<<counts[p], p>> : p \in DOMAIN counts} :
            ~tuple_less(<<0, x[2]>>, <<0, y[2]>>)

\* max taking the least (count, pair)
max_takes_least(counts) ==
    CHOOSE x \in {<<counts[p], p>> : p \in DOMAIN counts} :
        \A y \in {<<counts[p], p>> : p \in DOMAIN counts} : ~tuple_less(y, x)

\* PairCounts::max: the greatest (count, pair) over all shards; the domain of
\* counts is not empty
max(counts) ==
    CHOOSE x \in {<<counts[p], p>> : p \in DOMAIN counts} :
        \A y \in {<<counts[p], p>> : p \in DOMAIN counts} : ~tuple_less(x, y)

\* floor(log2(n)) for n >= 1
RECURSIVE floor_log2(_)
floor_log2(n) == IF n < 2 THEN 0 ELSE 1 + floor_log2(n \div 2)

\* min_freq of PairTokenizer::new
min_freq(n) == IF floor_log2(n + 1) > 2 THEN floor_log2(n + 1) ELSE 2

\* The initial pair counts: one per filtered pair of every training sequence
RECURSIVE initial_counts(_, _)
initial_counts(counts, strings) ==
    IF strings = <<>> THEN counts
    ELSE initial_counts(update_pairs(counts, pairs(Head(strings).tokens), 1),
                        Tail(strings))

\* The token map after every training string was turned into tokens
RECURSIVE create_all(_, _)
create_all(map, corpus) ==
    IF corpus = <<>> THEN map
    ELSE create_all(create_chars(map, Head(corpus)), Tail(corpus))

\* One training sequence in the rewrite pass: skipped when its mask lacks the
\* pair's bit, replaced when from_replace reports a change.
rewrite(s, pair, merged) ==
    IF ~bloom_contains(s, mask(pair)) THEN s
    ELSE IF from_replace_changed(s, pair, merged) THEN from_replace(s, pair, merged)
    ELSE s

\* The delta one chunk collects: -1 for each pair of a replaced sequence, +1
\* for each pair of its replacement
RECURSIVE chunk_delta(_, _, _, _)
chunk_delta(delta, chunk, pair, merged) ==
    CHOOSE chunk_result \in
        {IF c = <<>> THEN delta
         ELSE CHOOSE rest \in
                  {chunk_delta(IF t = Head(c) THEN delta
                               ELSE update_pairs(update_pairs(delta, pairs(Head(c).tokens), -1),
                                                 pairs(t.tokens), 1),
                               Tail(c), pair, merged) :
                   t \in {rewrite(Head(c), pair, merged)}} : TRUE :
         c \in {chunk}} : TRUE

\* par_chunks_mut(chunk_size): the sequences in chunks of chunk_size, the last
\* one shorter
chunks(strings, chunk_size) ==
    [k \in 1..((Len(strings) + chunk_size - 1) \div chunk_size) |->
        SubSeq(strings, (k - 1) * chunk_size + 1,
               IF k * chunk_size < Len(strings) THEN k * chunk_size ELSE Len(strings))]

\* The delta of every chunk
RECURSIVE chunk_deltas(_, _, _)
chunk_deltas(chunk, pair, merged) ==
    CHOOSE deltas \in
        {IF c = <<>> THEN <<>>
         ELSE <<chunk_delta(EmptyCounts, Head(c), pair, merged)>>
              \o chunk_deltas(Tail(c), pair, merged) :
         c \in {chunk}} : TRUE

\* counts_ref.lock().unwrap().apply(delta) by every worker: the counts that
\* can result, the workers taking the lock in any order
RECURSIVE apply_in_any_order(_, _, _)
apply_in_any_order(counts, deltas, waiting) ==
    IF waiting = {} THEN {counts}
    ELSE UNION {apply_in_any_order(apply(c, deltas[k]), deltas, waiting \ {k}) :
                   k \in waiting, c \in {counts}}

\* PairTokenizer::tokenize: replay the merge log on the characters of s
\* replay going through the merge log from its newest entry
RECURSIVE replay_newest_first(_, _)
replay_newest_first(t, log) ==
    IF log = <<>> THEN t
    ELSE LET pair == Last(log)[1]
             merged == Last(log)[2]
         IN  replay_newest_first(IF contains(t, pair) /\ from_replace_changed(t, pair, merged)
                                 THEN from_replace(t, pair, merged) ELSE t,
                                 Front(log))

RECURSIVE replay(_, _)
replay(t, log) ==
    IF log = <<>> THEN t
    ELSE LET pair == Head(log)[1]
             merged == Head(log)[2]
         IN  replay(IF contains(t, pair) /\ from_replace_changed(t, pair, merged)
                    THEN from_replace(t, pair, merged) ELSE t,
                    Tail(log))

tokenize(map, log, str) == replay(from_str_or_unknown(map, str), log)

\* ---- training and inference ----

MaxStrLen == 3

Alphabet == {"a", "b", " ", "/"}

\* Strings over the alphabet, up to a length
RECURSIVE StringsUpTo(_)
StringsUpTo(n) ==
    IF n = 0 THEN {<<>>}
    ELSE StringsUpTo(n - 1)
         \cup {Append(s, c) : s \in {x \in StringsUpTo(n - 1) : Len(x) = n - 1},
                              c \in Alphabet}

\* The shape of the strings initialize_tokenizer passes: outputs of normalize
\* have no space at either end and no two adjacent special characters.
IsNormalized(s) ==
    /\ s # <<>> => Head(s) # " " /\ Last(s) # " "
    /\ \A i \in 1..(Len(s) - 1) : ~(s[i] \in {" ", "/"} /\ s[i + 1] \in {" ", "/"})

TrainingStrings == {s \in StringsUpTo(MaxStrLen) : IsNormalized(s)}

ShortTrainingStrings == {s \in TrainingStrings : Len(s) < MaxStrLen}

\* How often the first and the second string occur in the corpus
FirstCopies == {1, 2}
SecondCopies == {0, 1, 2}

Copies(s, n) == [i \in 1..n |-> s]

TokIdle ==
    /\ tk_pc = "idle"
    /\ tk_corpus = <<>>
    /\ token_map = <<>>
    /\ tk_strings = <<>>
    /\ tk_counts = EmptyCounts
    /\ merges = <<>>
    /\ tk_out = <<>>
    /\ frequent_ngrams = <<>>

\* PairTokenizer::new up to the main loop
TokInit ==
    /\ \E s1 \in TrainingStrings, s2 \in ShortTrainingStrings,
          n1 \in FirstCopies, n2 \in SecondCopies :
         tk_corpus = Copies(s1, n1) \o Copies(s2, n2)
    /\ token_map = create_all(token_map_new(special_chars), tk_corpus)
    /\ tk_strings = [i \in 1..Len(tk_corpus) |->
                        from_str_or_unknown(token_map, tk_corpus[i])]
    /\ tk_counts = initial_counts(EmptyCounts, tk_strings)
    /\ merges = <<>>
    /\ tk_pc = "train"
    /\ tk_out = <<>>
    /\ frequent_ngrams = <<>>

\* The main loop stops: no pair is counted, or the best count is below min_freq
TrainStop ==
    /\ tk_pc = "train"
    /\ \/ DOMAIN tk_counts = {}
       \/ /\ DOMAIN tk_counts # {}
          /\ max(tk_counts)[1] < min_freq(Len(tk_corpus))
    /\ tk_pc' = "done"
    /\ UNCHANGED <<tk_corpus, token_map, tk_strings, tk_counts, merges, tk_out,
                   frequent_ngrams>>

\* One iteration of the main loop: merge the best pair and rewrite the
\* training sequences.  chunk_size is max(100, len / cpus) in the program;
\* here it is any size that cuts the few sequences into chunks.
MergeStep ==
    /\ tk_pc = "train"
    /\ DOMAIN tk_counts # {}
    /\ max(tk_counts)[1] >= min_freq(Len(tk_corpus))
    /\ \E pair \in {max(tk_counts)[2]}, merged \in {Len(token_map)} :
           /\ token_map' = create_token(token_map, merge_create_token(token_map, pair))
           /\ merges' = Append(merges, <<pair, merged>>)
           /\ tk_strings' = [i \in 1..Len(tk_strings) |->
                                rewrite(tk_strings[i], pair, merged)]
           /\ \E chunk_size \in 1..Len(tk_strings) :
                \E deltas \in {chunk_deltas(chunks(tk_strings, chunk_size), pair, merged)} :
                    \E counts \in apply_in_any_order(tk_counts, deltas, DOMAIN deltas) :
                        tk_counts' = counts
    /\ UNCHANGED <<tk_pc, tk_corpus, tk_out, frequent_ngrams>>

\* PairTokenizer::tokenize on a string of the training corpus
Tokenize ==
    /\ tk_pc = "done"
    /\ \E i \in 1..Len(tk_corpus) :
         tk_out' = <<[input |-> tk_corpus[i],
                      tokens |-> tokenize(token_map, merges, tk_corpus[i]).tokens]>>
    /\ UNCHANGED <<tk_pc, tk_corpus, token_map, tk_strings, tk_counts, merges,
                   frequent_ngrams>>

\* ---- ngrams.rs ----

\* --windows, its default
default_windows == 5

\* Ngram::new: the hash of a window of tokens, taken to be free of collisions
Ngram(window) == window

\* Ngrams::windows: every window of 1..=n tokens that is allowed, sorted and
\* free of duplicates (allowed is a set of n-grams, or <<>> for no filter)
windows(tokens, n, allowed) ==
    {g \in UNION {{Ngram(SubSeq(tokens, i, i + k - 1)) :
                       i \in 1..(Len(tokens) - k + 1)} : k \in 1..n} :
        allowed # <<>> => g \in allowed[1]}

\* The u8 counter of count_and_filter_from_paths
saturating_add(a, b) == IF a + b > 255 THEN 255 ELSE a + b

\* count_and_filter_from_paths, the counts of one chunk: one for every path
\* of the slice whose n-grams hold the n-gram
RECURSIVE local_counts(_, _, _, _)
local_counts(counts, paths, map, log) ==
    IF paths = <<>> THEN counts
    ELSE LET temp_ngrams == windows(tokenize(map, log, Head(paths)).tokens,
                                    default_windows, <<>>)
             next == [g \in DOMAIN counts \cup temp_ngrams |->
                         IF g \in temp_ngrams
                         THEN saturating_add(IF g \in DOMAIN counts THEN counts[g] ELSE 0, 1)
                         ELSE counts[g]]
         IN  local_counts(next, Tail(paths), map, log)

\* Ngrams::count_and_filter_from_paths (one chunk: chunk_size is at least 100)
count_and_filter_from_paths(paths, map, log) ==
    LET ngram_counts == local_counts(<<>>, paths, map, log)
    IN  {g \in DOMAIN ngram_counts : ngram_counts[g] > 1}

\* generate_ngrams: the frequent n-grams of the paths the tokenizer was
\* trained on (candidates and playlist entries)
GenerateNgrams ==
    /\ tk_pc = "done"
    /\ frequent_ngrams = <<>>
    /\ frequent_ngrams' = <<count_and_filter_from_paths(tk_corpus, token_map, merges)>>
    /\ UNCHANGED <<tk_pc, tk_corpus, token_map, tk_strings, tk_counts, merges, tk_out>>

\* ---- normalize.rs ----

MAIN_SEPARATOR == "/"

\* char::to_lowercase on the characters of the model
to_lowercase(c) == IF c = "A" THEN "a" ELSE IF c = "B" THEN "b" ELSE c

\* char::is_alphanumeric
is_alphanumeric(c) == c \in {"a", "b", "A", "B", "1"}

\* str::ends_with for one character
ends_with(str, c) == str # <<>> /\ Last(str) = c

\* The body of normalize's loop with the test for a space at the end left out
push_without_space_test(ret, c) ==
    IF c = MAIN_SEPARATOR
    THEN Append(IF ends_with(ret, " ") \/ ends_with(ret, MAIN_SEPARATOR)
                THEN Front(ret) ELSE ret, c)
    ELSE IF is_alphanumeric(c) THEN Append(ret, c)
    ELSE IF c # "'" /\ ret # <<>> /\ ~ends_with(ret, MAIN_SEPARATOR)
         THEN Append(ret, " ")
         ELSE ret

\* The body of normalize's loop with a separator popping whatever character
\* is at the end
push_pops_any_character(ret, c) ==
    IF c = MAIN_SEPARATOR
    THEN Append(IF ret # <<>> THEN Front(ret) ELSE ret, c)
    ELSE IF is_alphanumeric(c) THEN Append(ret, c)
    ELSE IF /\ c # "'"
            /\ ret # <<>>
            /\ ~ends_with(ret, " ")
            /\ ~ends_with(ret, MAIN_SEPARATOR)
         THEN Append(ret, " ")
         ELSE ret

\* normalize, the body of the loop: what the character c does to ret
push(ret, c) ==
    IF c = MAIN_SEPARATOR
    THEN Append(IF ends_with(ret, " ") \/ ends_with(ret, MAIN_SEPARATOR)
                THEN Front(ret) ELSE ret, c)
    ELSE IF is_alphanumeric(c) THEN Append(ret, c)
    ELSE IF /\ c # "'"
            /\ ret # <<>>
            /\ ~ends_with(ret, " ")
            /\ ~ends_with(ret, MAIN_SEPARATOR)
         THEN Append(ret, " ")
         ELSE ret

RECURSIVE normalize_loop(_, _)
normalize_loop(ret, file) ==
    IF file = <<>> THEN ret
    ELSE normalize_loop(push(ret, Head(file)), Tail(file))

\* normalize
normalize(file) ==
    LET lower == [i \in 1..Len(file) |-> to_lowercase(file[i])]
        ret == normalize_loop(<<>>, lower)
    IN  IF ends_with(ret, " ") THEN Front(ret) ELSE ret

MaxPathLen == 4

PathAlphabet == {"a", "B", "1", "/", "'", " ", "!"}

\* Path strings up to a length
RECURSIVE PathStrings(_)
PathStrings(n) ==
    IF n = 0 THEN {<<>>}
    ELSE PathStrings(n - 1)
         \cup {Append(s, c) : s \in {x \in PathStrings(n - 1) : Len(x) = n - 1},
                              c \in PathAlphabet}

NormIdle ==
    /\ nz_file = <<>>
    /\ nz_ret = <<>>

NormInit ==
    /\ nz_file \in PathStrings(MaxPathLen)
    /\ nz_ret = <<>>

\* normalize called on a path string
Normalize ==
    /\ nz_ret = <<>>
    /\ nz_ret' = <<normalize(nz_file)>>
    /\ UNCHANGED nz_file

\* normalize called on what it returned
NormalizeAgain ==
    /\ nz_ret # <<>>
    /\ nz_ret[1] # nz_file
    /\ nz_file' = nz_ret[1]
    /\ nz_ret' = <<normalize(nz_ret[1])>>

\* ---- the playlist on its own: open, append, re-open ----

MaxAppends == 2

\* Directories a labelled file may live in: the playlist's directory, one
\* below it, one outside it, and one spelled with a ".." component.
SampleDirs ==
    { << <<"r">> >>,
      << <<"r">>, <<"m">> >>,
      << <<"o">> >>,
      << <<"r">>, <<"m">>, ParentDir, <<"n">> >> }

\* File names: plain, starting with '#', starting with "#NEGATIVE:", and with
\* leading or trailing whitespace.
SampleNames ==
    { <<"a">>,
      <<"#", "a">>,
      NEGATIVE_PREFIX \o <<"a">>,
      <<" ", "a">>,
      <<"a", " ">> }

SamplePaths == { Append(d, n) : d \in SampleDirs, n \in SampleNames }

PlaylistInit ==
    /\ pl_file = Absent
    /\ pl_open = FALSE
    /\ pl_result = "none"
    /\ pl_entries = <<>>
    /\ pl_appends = 0

\* Files that may exist at the playlist's path before the first open: a
\* first line (nothing, the header with and without line end, with "\r\n",
\* padded with blanks, an empty line, a truncated header, a path) followed by
\* a body (nothing, entries, comments, a second header)
FirstLines ==
    { <<>>,
      writeln(<<>>, M3U_HEADER),
      M3U_HEADER,
      M3U_HEADER \o <<"\r", "\n">>,
      writeln(<<>>, <<" ">> \o M3U_HEADER \o <<" ">>),
      writeln(<<>>, <<>>),
      writeln(<<>>, Front(M3U_HEADER)),
      writeln(<<>>, <<"a">>) }

Bodies ==
    { <<>>,
      writeln(<<>>, <<"a">>),
      <<"a">>,
      writeln(<<>>, <<" ", "a", " ">>),
      writeln(<<>>, NEGATIVE_PREFIX \o <<"m", "/", "a">>),
      writeln(<<>>, <<"#", "c">>),
      writeln(writeln(<<>>, <<"a">>), NEGATIVE_PREFIX \o <<"b">>),
      writeln(<<>>, M3U_HEADER) }

ExistingFiles == {first \o body : first \in FirstLines, body \in Bodies}

\* The playlist path before M3uPlaylist::open: no file, or one of ExistingFiles
PlaylistAnyFileInit ==
    /\ pl_file \in {Absent} \cup ExistingFiles
    /\ pl_open = FALSE
    /\ pl_result = "none"
    /\ pl_entries = <<>>
    /\ pl_appends = 0

\* M3uPlaylist::open, also used to re-open the file (the value it returns
\* replaces the playlist held so far)
OpenPlaylist ==
    LET r == open(pl_file, PlaylistRoot) IN
    /\ pl_file' = r.file
    /\ pl_open' = (r.result = "Ok")
    /\ pl_result' = r.result
    /\ pl_entries' = r.entries
    /\ UNCHANGED pl_appends

AddPositive ==
    /\ pl_open
    /\ pl_appends < MaxAppends
    /\ \E p \in SamplePaths :
         LET r == add_positive(pl_entries, pl_file, PlaylistRoot, p, TRUE) IN
         /\ pl_entries' = r.entries
         /\ pl_file' = r.file
    /\ pl_appends' = pl_appends + 1
    /\ UNCHANGED <<pl_open, pl_result>>

AddNegative ==
    /\ pl_open
    /\ pl_appends < MaxAppends
    /\ \E p \in SamplePaths :
         LET r == add_negative(pl_entries, pl_file, PlaylistRoot, p, TRUE) IN
         /\ pl_entries' = r.entries
         /\ pl_file' = r.file
    /\ pl_appends' = pl_appends + 1
    /\ UNCHANGED <<pl_open, pl_result>>

\* ------------------------------------------------------------------------
\* classifier.rs
\* ------------------------------------------------------------------------

\* Option<T>: None is the empty sequence, Some(x) the sequence holding x
None == <<>>
Some(x) == <<x>>

\* std::cmp::min and std::cmp::max
cmp_min(a, b) == IF a < b THEN a ELSE b
cmp_max(a, b) == IF a > b THEN a ELSE b

\* Scores are f64 in the program.  Here a score is a fixed-point number in
\* thousandths, and ln(n) is read from a table of 1000 * ln(n), rounded.
LnTable ==
    <<0, 693, 1099, 1386, 1609, 1792, 1946, 2079, 2197, 2303, 2398, 2485,
      2565, 2639, 2708, 2773, 2833, 2890, 2944, 2996, 3045, 3091, 3135, 3178,
      3219, 3258, 3296, 3332, 3367, 3401, 3434, 3466>>

ln(n) == LnTable[n]

\* One unit of the fixed-point scores
ScoreUnit == 1000

\* calculate_log_score: value.log(log_base), negated when reverse
calculate_log_score(value, offset, log_base, reverse) ==
    LET v == cmp_max(value + offset, 1)
        score == (ln(v) * ScoreUnit) \div ln(log_base)
    IN  IF reverse THEN 0 - score ELSE score

\* HashMap<K, count>: get(..).unwrap_or(0)
count_of(counts, k) == IF k \in DOMAIN counts THEN counts[k] ELSE 0

\* *counts.entry(k).or_default() += 1
increment(counts, k) ==
    IF k \in DOMAIN counts THEN [counts EXCEPT ![k] = @ + 1] ELSE counts @@ (k :> 1)

RECURSIVE increment_all(_, _)
increment_all(counts, ngrams) ==
    IF ngrams = <<>> THEN counts
    ELSE increment_all(increment(counts, Head(ngrams)), Tail(ngrams))

Elements(seq) == {seq[i] : i \in 1..Len(seq)}

\* NaiveBayesClassifier::new(false)
NaiveBayesNew ==
    [positive_counts |-> <<>>, positive_total |-> 0, positive_total_ngrams |-> 0,
     negative_counts |-> <<>>, negative_total |-> 0, negative_total_ngrams |-> 0,
     vocabulary |-> {}, reverse |-> FALSE]

\* train_positive with the example counter left alone
train_positive_without_total(nb, ngrams) ==
    [nb EXCEPT !.positive_counts = increment_all(@, ngrams),
               !.vocabulary = @ \cup Elements(ngrams),
               !.positive_total_ngrams = @ + Len(ngrams)]

\* NaiveBayesClassifier::train_positive
train_positive(nb, ngrams) ==
    [nb EXCEPT !.positive_total = @ + 1,
               !.positive_counts = increment_all(@, ngrams),
               !.vocabulary = @ \cup Elements(ngrams),
               !.positive_total_ngrams = @ + Len(ngrams)]

\* NaiveBayesClassifier::train_negative
train_negative(nb, ngrams) ==
    [nb EXCEPT !.negative_total = @ + 1,
               !.negative_counts = increment_all(@, ngrams),
               !.vocabulary = @ \cup Elements(ngrams),
               !.negative_total_ngrams = @ + Len(ngrams)]

\* NaiveBayesClassifier::log_probability
log_probability(nb, ngram, positive) ==
    IF nb.vocabulary = {} THEN 0
    ELSE LET counts == IF positive THEN nb.positive_counts ELSE nb.negative_counts
             total_ngrams == IF positive THEN nb.positive_total_ngrams
                             ELSE nb.negative_total_ngrams
         IN  ln(1 + count_of(counts, ngram))
             - ln(total_ngrams + Cardinality(nb.vocabulary))

RECURSIVE sum_log_probability(_, _, _)
sum_log_probability(nb, ngrams, positive) ==
    IF ngrams = <<>> THEN 0
    ELSE log_probability(nb, Head(ngrams), positive)
         + sum_log_probability(nb, Tail(ngrams), positive)

\* <NaiveBayesClassifier as Classifier>::calculate_score
naive_bayes_calculate_score(nb, item) ==
    LET log_positive == ln(1 + nb.positive_total)
                        - ln(2 + nb.positive_total + nb.negative_total)
                        + sum_log_probability(nb, item.ngrams, TRUE)
        log_negative == ln(1 + nb.negative_total)
                        - ln(2 + nb.positive_total + nb.negative_total)
                        + sum_log_probability(nb, item.ngrams, FALSE)
        score == log_positive - log_negative
    IN  IF nb.reverse THEN 0 - score ELSE score

\* DirSizeClassifier::new for --dir-size-bias 2 and the default offset
DirSizeNew == [log_base |-> 2, offset |-> 0, reverse |-> FALSE, dir_counts |-> <<>>]

\* DirSizeClassifier::add_entry
add_entry(dsc, entry) ==
    [dsc EXCEPT !.dir_counts = increment(@, entry.dir)]

\* DirSizeClassifier::remove_entry
remove_entry(dsc, entry) ==
    IF entry.dir \in DOMAIN dsc.dir_counts
    THEN IF dsc.dir_counts[entry.dir] - 1 = 0
         THEN [dsc EXCEPT !.dir_counts =
                  [d \in (DOMAIN dsc.dir_counts) \ {entry.dir} |-> dsc.dir_counts[d]]]
         ELSE [dsc EXCEPT !.dir_counts[entry.dir] = @ - 1]
    ELSE dsc

\* <DirSizeClassifier as Classifier>::calculate_score
dir_size_calculate_score(dsc, item) ==
    calculate_log_score(count_of(dsc.dir_counts, item.dir), dsc.offset,
                        dsc.log_base, dsc.reverse)

\* FileSizeClassifier::new for --file-size-bias 2 and --file-size-offset 0
FileSizeNew == [log_base |-> 2, offset |-> 0, reverse |-> FALSE]

\* <FileSizeClassifier as Classifier>::calculate_score
file_size_calculate_score(fsc, item) ==
    calculate_log_score(item.size, fsc.offset, fsc.log_base, fsc.reverse)

\* SystemTime::now() when the classifier is made, in seconds
Now == 8

\* FileAgeClassifier::new for --file-age-bias 2 and --file-age-offset 0
FileAgeNew == [log_base |-> 2, offset |-> 0, reverse |-> FALSE, now |-> Now]

\* <FileAgeClassifier as Classifier>::calculate_score: a file created after
\* `now` has the age zero
file_age_calculate_score(fac, item) ==
    LET age_seconds == IF fac.now >= item.created THEN fac.now - item.created ELSE 0
    IN  calculate_log_score(age_seconds, fac.offset, fac.log_base, fac.reverse)

\* ------------------------------------------------------------------------
\* vlc.rs
\* ------------------------------------------------------------------------

\* --vlc-timeout (seconds) and --vlc-poll-interval (milliseconds)
vlc_timeout == 1
vlc_poll_interval == 500

\* ControlMessage
StartPlaybackMsg(path, file_name) ==
    [type |-> "StartPlayback", path |-> path, file_name |-> file_name]
ShutdownMsg == [type |-> "Shutdown", path |-> <<>>, file_name |-> None]

\* StatusMessage
ClassificationMsg(c) == [type |-> "Classification", value |-> c]
ErrorMsg(e) == [type |-> "Error", value |-> e]

\* handle_control: the number of polls the startup window allows
startup_attempts == (vlc_timeout * 1000) \div vlc_poll_interval

\* PlaybackState for a freshly spawned player
NewPlaybackState(file_name) ==
    [file_name |-> file_name,
     waiting_initial |-> TRUE,
     attempts_remaining |-> startup_attempts]

\* What get_status can return: an error, or a Status with or without the
\* information block that carries the file name
StatusErr == [ok |-> FALSE, file_name |-> None, state |-> "none"]
StatusOk(file_name, state) == [ok |-> TRUE, file_name |-> file_name, state |-> state]

PlayerStates == {"playing", "stopped", "paused"}

\* A name the player may report that is not the name of any candidate
OtherName == <<"x">>

Statuses(expected) ==
    {StatusErr}
    \cup {StatusOk(f, st) : f \in {None, Some(OtherName)} \cup {expected},
                            st \in PlayerStates}

\* mismatch with the comparison left out
mismatch_ignored(expected, vlc_filename) == FALSE

\* poll_status: expected.map_or(false, |expected| vlc_filename != *expected)
mismatch(expected, vlc_filename) ==
    expected # None /\ vlc_filename # expected[1]

\* impl Drop for PlaybackState, run when an Option<PlaybackState> that holds a
\* state is overwritten: the child is killed and reaped
drop(playback) == IF playback = None THEN <<>> ELSE <<"kill">>

\* handle_control spawning the new player before the old state is dropped
handle_control_spawns_first(playback, msg, spawn_ok) ==
    IF msg = None
    THEN [current_playback |-> playback, send |-> <<>>, child_ops |-> <<>>]
    ELSE IF msg[1].type = "StartPlayback"
         THEN IF spawn_ok
              THEN [current_playback |-> Some(NewPlaybackState(msg[1].file_name)),
                    send |-> <<>>,
                    child_ops |-> <<"spawn">> \o drop(playback)]
              ELSE [current_playback |-> None,
                    send |-> <<ErrorMsg("spawn failed")>>,
                    child_ops |-> drop(playback)]
         ELSE [current_playback |-> None, send |-> <<>>, child_ops |-> drop(playback)]

\* handle_control with Shutdown leaving the current playback as it is
handle_control_shutdown_keeps_playback(playback, msg, spawn_ok) ==
    IF msg = None
    THEN [current_playback |-> playback, send |-> <<>>, child_ops |-> <<>>]
    ELSE IF msg[1].type = "StartPlayback"
         THEN IF spawn_ok
              THEN [current_playback |-> Some(NewPlaybackState(msg[1].file_name)),
                    send |-> <<>>,
                    child_ops |-> drop(playback) \o <<"spawn">>]
              ELSE [current_playback |-> None,
                    send |-> <<ErrorMsg("spawn failed")>>,
                    child_ops |-> drop(playback)]
         ELSE [current_playback |-> playback, send |-> <<>>, child_ops |-> <<>>]

\* VlcBackground::handle_control for the message try_recv returned (None when
\* the channel is empty): the playback state after it and the messages it sends
handle_control(playback, msg, spawn_ok) ==
    IF msg = None
    THEN [current_playback |-> playback, send |-> <<>>, child_ops |-> <<>>]
    ELSE IF msg[1].type = "StartPlayback"
         THEN IF spawn_ok
              THEN [current_playback |-> Some(NewPlaybackState(msg[1].file_name)),
                    send |-> <<>>,
                    child_ops |-> drop(playback) \o <<"spawn">>]
              ELSE [current_playback |-> None,
                    send |-> <<ErrorMsg("spawn failed")>>,
                    child_ops |-> drop(playback)]
         ELSE [current_playback |-> None, send |-> <<>>, child_ops |-> drop(playback)]

\* poll_status reporting a failed status request of the startup window as
\* Skipped, the playback left running
poll_status_reports_startup_error(state, status) ==
    IF status.ok
    THEN IF state.waiting_initial
         THEN IF status.file_name # None
              THEN IF mismatch(state.file_name, status.file_name[1])
                   THEN [current_playback |-> None,
                         send |-> <<ErrorMsg("Filename mismatch")>>,
                         child_ops |-> drop(Some(state))]
                   ELSE [current_playback |->
                             Some([state EXCEPT !.waiting_initial = FALSE]),
                         send |-> <<>>,
                         child_ops |-> <<>>]
              ELSE LET left == cmp_max(state.attempts_remaining - 1, 0) IN
                   IF left = 0
                   THEN [current_playback |-> None,
                         send |-> <<ErrorMsg("VLC did not respond")>>,
                         child_ops |-> drop(Some(state))]
                   ELSE [current_playback |->
                             Some([state EXCEPT !.attempts_remaining = left]),
                         send |-> <<>>,
                         child_ops |-> <<>>]
         ELSE IF status.state = "stopped"
              THEN [current_playback |-> None,
                    send |-> <<ClassificationMsg("Positive")>>,
                    child_ops |-> drop(Some(state))]
              ELSE IF status.state = "paused"
                   THEN [current_playback |-> None,
                         send |-> <<ClassificationMsg("Negative")>>,
                         child_ops |-> drop(Some(state))]
                   ELSE [current_playback |-> Some(state), send |-> <<>>,
                         child_ops |-> <<>>]
    ELSE IF ~state.waiting_initial
         THEN [current_playback |-> None,
               send |-> <<ClassificationMsg("Skipped")>>,
               child_ops |-> drop(Some(state))]
         ELSE [current_playback |-> Some(state),
               send |-> <<ClassificationMsg("Skipped")>>,
               child_ops |-> <<>>]

\* VlcBackground::poll_status for a current playback and the status the
\* player returned: the playback state after it and the messages it sends
poll_status(state, status) ==
    IF status.ok
    THEN IF state.waiting_initial
         THEN IF status.file_name # None
              THEN IF mismatch(state.file_name, status.file_name[1])
                   THEN [current_playback |-> None,
                         send |-> <<ErrorMsg("Filename mismatch")>>,
                         child_ops |-> drop(Some(state))]
                   ELSE [current_playback |->
                             Some([state EXCEPT !.waiting_initial = FALSE]),
                         send |-> <<>>,
                         child_ops |-> <<>>]
              ELSE LET left == cmp_max(state.attempts_remaining - 1, 0) IN
                   IF left = 0
                   THEN [current_playback |-> None,
                         send |-> <<ErrorMsg("VLC did not respond")>>,
                         child_ops |-> drop(Some(state))]
                   ELSE [current_playback |->
                             Some([state EXCEPT !.attempts_remaining = left]),
                         send |-> <<>>,
                         child_ops |-> <<>>]
         ELSE IF status.state = "stopped"
              THEN [current_playback |-> None,
                    send |-> <<ClassificationMsg("Positive")>>,
                    child_ops |-> drop(Some(state))]
              ELSE IF status.state = "paused"
                   THEN [current_playback |-> None,
                         send |-> <<ClassificationMsg("Negative")>>,
                         child_ops |-> drop(Some(state))]
                   ELSE [current_playback |-> Some(state), send |-> <<>>,
                         child_ops |-> <<>>]
    ELSE IF ~state.waiting_initial
         THEN [current_playback |-> None,
               send |-> <<ClassificationMsg("Skipped")>>,
               child_ops |-> drop(Some(state))]
         ELSE [current_playback |-> Some(state), send |-> <<>>,
               child_ops |-> <<>>]

\* try_recv_classification with an error message read as a Positive verdict
try_recv_error_as_positive(msg) ==
    IF msg.type = "Classification"
    THEN [result |-> "Ok", value |-> Some(msg.value)]
    ELSE [result |-> "Ok", value |-> Some("Positive")]

\* VlcController::try_recv_classification for a message taken from status_rx
try_recv_classification(msg) ==
    IF msg.type = "Classification"
    THEN [result |-> "Ok", value |-> Some(msg.value)]
    ELSE [result |-> "Err", value |-> None]

\* ------------------------------------------------------------------------
\* app.rs
\* ------------------------------------------------------------------------

\* App::get_classifiers with the naive Bayes classifier pushed first
get_classifiers_naive_bayes_first(fsc, dsc, fac) ==
    <<"naive_bayes">>
    \o (IF fsc # None THEN <<"file_size">> ELSE <<>>)
    \o (IF dsc # None THEN <<"dir_size">> ELSE <<>>)
    \o (IF fac # None THEN <<"file_age">> ELSE <<>>)

\* App::get_classifiers: each classifier by its name()
get_classifiers(fsc, dsc, fac) ==
    (IF fsc # None THEN <<"file_size">> ELSE <<>>)
    \o (IF dsc # None THEN <<"dir_size">> ELSE <<>>)
    \o (IF fac # None THEN <<"file_age">> ELSE <<>>)
    \o <<"naive_bayes">>

\* classifier.calculate_score(entry)
calculate_score(name, fsc, dsc, fac, nb, entry) ==
    IF name = "file_size" THEN file_size_calculate_score(fsc[1], entry)
    ELSE IF name = "dir_size" THEN dir_size_calculate_score(dsc[1], entry)
    ELSE IF name = "file_age" THEN file_age_calculate_score(fac[1], entry)
    ELSE naive_bayes_calculate_score(nb, entry)

\* entry.scores.iter().sum()
RECURSIVE sum(_)
sum(scores) == IF scores = <<>> THEN 0 ELSE Head(scores) + sum(Tail(scores))

\* reduce(f64::min) and reduce(f64::max) over a column of scores
RECURSIVE reduce_min(_)
reduce_min(xs) ==
    IF Len(xs) = 1 THEN xs[1] ELSE cmp_min(Head(xs), reduce_min(Tail(xs)))

RECURSIVE reduce_max(_)
reduce_max(xs) ==
    IF Len(xs) = 1 THEN xs[1] ELSE cmp_max(Head(xs), reduce_max(Tail(xs)))

\* First loop of calculate_scores_and_sort_entries: the raw scores
raw_scores(es, fsc, dsc, fac, nb) ==
    LET classifiers == get_classifiers(fsc, dsc, fac) IN
    [i \in 1..Len(es) |->
        [es[i] EXCEPT !.scores =
            [c \in 1..Len(classifiers) |->
                calculate_score(classifiers[c], fsc, dsc, fac, nb, es[i])]]]

\* Second loop: each column is rescaled to 0..1 unless it is constant
normalize_columns(es) ==
    [i \in 1..Len(es) |->
        [es[i] EXCEPT !.scores =
            [c \in 1..Len(es[i].scores) |->
                LET col_scores == [k \in 1..Len(es) |-> es[k].scores[c]]
                    min == reduce_min(col_scores)
                    hi == reduce_max(col_scores)
                IN  IF hi - min > 0
                    THEN ((es[i].scores[c] - min) * ScoreUnit) \div (hi - min)
                    ELSE es[i].scores[c]]]]

\* Insertion into a sequence sorted by the summed score, after every element
\* that is not greater (sort_by is stable)
RECURSIVE insert_sorted(_, _)
insert_sorted(sorted, e) ==
    IF sorted = <<>> THEN <<e>>
    ELSE IF sum(e.scores) < sum(Last(sorted).scores)
         THEN Append(insert_sorted(Front(sorted), e), Last(sorted))
         ELSE Append(sorted, e)

RECURSIVE sort_by_sum(_)
sort_by_sum(es) ==
    IF es = <<>> THEN <<>> ELSE insert_sorted(sort_by_sum(Front(es)), Last(es))

\* App::calculate_scores_and_sort_entries: the pool after the call
calculate_scores_and_sort_entries(es, fsc, dsc, fac, nb) ==
    IF es = <<>> THEN <<>>
    ELSE sort_by_sum(normalize_columns(raw_scores(es, fsc, dsc, fac, nb)))

\* num_to_process without the lower bound of one
num_to_process_unclamped(len, batch) == cmp_min(len, batch)

\* num_to_process with a lower bound of two
num_to_process_pairs(len, batch) == cmp_min(len, cmp_max(batch, 2))

\* classification_loop: min(self.entries.len(), max(self.batch_size, 1))
num_to_process(len, batch) == cmp_min(len, cmp_max(batch, 1))

\* entry.file.dir.join(&entry.file.file_name)
entry_path(entry) == Append(entry.dir, entry.file_name)

\* process_classification_result with the classifier trained before the
\* result of the append is looked at
process_classification_result_trains_first(dsc, nb, pl_e, pl_f, entry, classification, io_ok) ==
    LET dsc2 == IF dsc # None THEN Some(remove_entry(dsc[1], entry)) ELSE None
        r == IF classification = "Positive"
             THEN add_positive(pl_e, pl_f, PlaylistRoot, entry_path(entry), io_ok)
             ELSE add_negative(pl_e, pl_f, PlaylistRoot, entry_path(entry), io_ok)
    IN  [dir_size_classifier |-> dsc2,
         entries |-> r.entries,
         file |-> r.file,
         naive_bayes |-> IF classification = "Positive"
                         THEN train_positive(nb, entry.ngrams)
                         ELSE train_negative(nb, entry.ngrams),
         result |-> r.result]

\* App::process_classification_result for a Positive or Negative verdict:
\* the classifiers and the playlist after the call, and its result
process_classification_result(dsc, nb, pl_e, pl_f, entry, classification, io_ok) ==
    LET dsc2 == IF dsc # None THEN Some(remove_entry(dsc[1], entry)) ELSE None
        r == IF classification = "Positive"
             THEN add_positive(pl_e, pl_f, PlaylistRoot, entry_path(entry), io_ok)
             ELSE add_negative(pl_e, pl_f, PlaylistRoot, entry_path(entry), io_ok)
    IN  [dir_size_classifier |-> dsc2,
         entries |-> r.entries,
         file |-> r.file,
         naive_bayes |-> IF r.result # "Ok" THEN nb
                         ELSE IF classification = "Positive"
                              THEN train_positive(nb, entry.ngrams)
                              ELSE train_negative(nb, entry.ngrams),
         result |-> r.result]

\* ---- the interactive loop and the controller thread ----

MaxFiles == 3
MaxBatch == 2

Letters == <<"a", "b", "c", "e", "f", "g">>

\* File.size and File.created (seconds) of the files the walk delivers; one
\* file is empty, one was created after the classifier took the time
Sizes == <<4, 0, 16, 4, 1, 2>>
Created == <<4, 9, 0, 7, 4, 0>>

\* The i-th file the walk delivers: its directory, its name and the frequent
\* n-grams of its normalized path (Ngrams is sorted and free of duplicates)
CandidateFile(i) ==
    [dir |-> IF i % 2 = 0 THEN << <<"r">>, <<"d">> >> ELSE << <<"r">> >>,
     file_name |-> <<Letters[i]>>,
     size |-> Sizes[i],
     created |-> Created[i],
     ngrams |-> <<(i % 3) + 1, 4>>]

\* collect_files: the Entry pushed for a file, scores zeroed
NewEntry(file, classifiers_len) ==
    [dir |-> file.dir, file_name |-> file.file_name, size |-> file.size,
     created |-> file.created, ngrams |-> file.ngrams,
     scores |-> [c \in 1..classifiers_len |-> 0]]

\* A file labelled in an earlier session, and the n-grams of its path
LabelledPath == << <<"r">>, <<"z">> >>
LabelledNgrams == <<2>>

\* The labelled file as the walk delivers it again: still on disk, its
\* directory spelled through a ".." component
LabelledFile ==
    [dir |-> << <<"r">>, <<"d">>, ParentDir >>, file_name |-> <<"z">>,
     size |-> 1, created |-> 0, ngrams |-> LabelledNgrams]

\* collect_files, the set of already classified paths
classified_paths(pl_e) == {normalize_path(pl_e[i].path) : i \in 1..Len(pl_e)}

\* collect_files with the walked path compared as it is spelled
RECURSIVE collect_files_unnormalized(_, _, _, _, _)
collect_files_unnormalized(walk, pl_e, dsc, acc, classifiers_len) ==
    IF walk = <<>> THEN [entries |-> acc, dir_size_classifier |-> dsc]
    ELSE LET file == Head(walk)
             abs_file_path == Append(file.dir, file.file_name)
             entry == NewEntry(file, classifiers_len)
         IN  IF abs_file_path \in classified_paths(pl_e)
             THEN collect_files_unnormalized(Tail(walk), pl_e, dsc, acc, classifiers_len)
             ELSE collect_files_unnormalized(Tail(walk), pl_e,
                      IF dsc # None THEN Some(add_entry(dsc[1], entry)) ELSE None,
                      Append(acc, entry), classifiers_len)

\* collect_files(include_classified = false): the files of the walk, in the
\* order they arrive, less the ones whose normalized path is classified
RECURSIVE collect_files(_, _, _, _, _)
collect_files(walk, pl_e, dsc, acc, classifiers_len) ==
    IF walk = <<>> THEN [entries |-> acc, dir_size_classifier |-> dsc]
    ELSE LET file == Head(walk)
             abs_file_path == Append(file.dir, file.file_name)
             normalized_file_path == normalize_path(abs_file_path)
             entry == NewEntry(file, classifiers_len)
         IN  IF normalized_file_path \in classified_paths(pl_e)
             THEN collect_files(Tail(walk), pl_e, dsc, acc, classifiers_len)
             ELSE collect_files(Tail(walk), pl_e,
                      IF dsc # None THEN Some(add_entry(dsc[1], entry)) ELSE None,
                      Append(acc, entry), classifiers_len)

\* What the walk delivers: the candidate files, and between them the file
\* labelled earlier when there is one
Walked(n, labelled) ==
    IF labelled
    THEN <<CandidateFile(1), LabelledFile>> \o [i \in 1..(n - 1) |-> CandidateFile(i + 1)]
    ELSE [i \in 1..n |-> CandidateFile(i)]

RECURSIVE add_entries(_, _)
add_entries(dsc, es) ==
    IF es = <<>> THEN dsc ELSE add_entries(add_entry(dsc, Head(es)), Tail(es))

AppIdle ==
    /\ app_entries = <<>>
    /\ batch_size = 0
    /\ file_size_classifier = None
    /\ file_age_classifier = None
    /\ dir_size_classifier = None
    /\ naive_bayes = NaiveBayesNew
    /\ entries_to_process = <<>>
    /\ position = 0
    /\ pc = "idle"
    /\ loop_result = "running"
    /\ control_ch = <<>>
    /\ status_ch = <<>>
    /\ current_playback = None
    /\ bg_pc = "idle"
    /\ children = 0
    /\ most_children = 0
    /\ presented = <<>>
    /\ outcomes = <<>>
    /\ rescored = FALSE
    /\ startup_polls = 0
    /\ mismatched = {}
    /\ collected = {}

\* The optional classifiers App::new makes, by the command line
Configurations ==
    {{}, {"dir_size"}, {"file_size", "dir_size", "file_age"}}

\* App::run up to classification_loop (collect_files, train_naive_bayes_classifier)
\* and VlcController::new
AppInit ==
    \E n \in 1..MaxFiles, b \in 0..MaxBatch, active \in Configurations,
       labelled \in BOOLEAN :
        LET fsc0 == IF "file_size" \in active THEN Some(FileSizeNew) ELSE None
            dsc0 == IF "dir_size" \in active THEN Some(DirSizeNew) ELSE None
            fac0 == IF "file_age" \in active THEN Some(FileAgeNew) ELSE None
            pl0 == open(Absent, PlaylistRoot)
            pl1 == add_positive(pl0.entries, pl0.file, PlaylistRoot, LabelledPath, TRUE)
            c == collect_files(Walked(n, labelled),
                               IF labelled THEN pl1.entries ELSE pl0.entries,
                               dsc0, <<>>, Len(get_classifiers(fsc0, dsc0, fac0)))
            pool == c.entries
        IN  /\ app_entries = pool
            /\ batch_size = b
            /\ file_size_classifier = fsc0
            /\ file_age_classifier = fac0
            /\ dir_size_classifier = c.dir_size_classifier
            /\ naive_bayes = IF labelled
                             THEN train_positive(NaiveBayesNew, LabelledNgrams)
                             ELSE NaiveBayesNew
            /\ pl_file = IF labelled THEN pl1.file ELSE pl0.file
            /\ pl_entries = IF labelled THEN pl1.entries ELSE pl0.entries
            /\ pl_open = TRUE
            /\ pl_result = "Ok"
            /\ pl_appends = 0
            /\ entries_to_process = <<>>
            /\ position = 0
            /\ pc = "loop"
            /\ loop_result = "running"
            /\ control_ch = <<>>
            /\ status_ch = <<>>
            /\ current_playback = None
            /\ bg_pc = "control"
            /\ children = 0
            /\ most_children = 0
            /\ presented = <<>>
            /\ outcomes = <<>>
            /\ rescored = FALSE
            /\ startup_polls = 0
            /\ mismatched = {}
            /\ collected = {entry_path(pool[i]) : i \in 1..Len(pool)}

\* classification_loop: one turn of the while loop up to the for loop
ScoreAndDrain ==
    /\ pc = "loop"
    /\ app_entries # <<>>
    /\ LET sorted == calculate_scores_and_sort_entries(
                         app_entries, file_size_classifier, dir_size_classifier,
                         file_age_classifier, naive_bayes)
           n == num_to_process(Len(sorted), batch_size)
       IN  /\ app_entries' = SubSeq(sorted, 1, Len(sorted) - n)
           /\ entries_to_process' = SubSeq(sorted, Len(sorted) - n + 1, Len(sorted))
    /\ position' = 0
    /\ pc' = "for"
    /\ rescored' = TRUE
    /\ UNCHANGED <<batch_size, file_size_classifier, file_age_classifier,
                   dir_size_classifier, naive_bayes, loop_result>>
    /\ UNCHANGED <<plVars, vlcVars, presented, outcomes, startup_polls, mismatched,
                   collected>>

\* classification_loop: the pool is empty, the loop returns Ok(())
LoopExit ==
    /\ pc = "loop"
    /\ app_entries = <<>>
    /\ pc' = "exit"
    /\ loop_result' = "Ok"
    /\ UNCHANGED <<app_entries, batch_size, file_size_classifier, file_age_classifier,
                   dir_size_classifier, naive_bayes,
                   entries_to_process, position>>
    /\ UNCHANGED <<plVars, vlcVars, histVars>>

\* The for loop takes the next drained entry, or ends
NextEntry ==
    /\ pc = "for"
    /\ IF position < Len(entries_to_process)
       THEN LET entry == entries_to_process[position + 1] IN
            \* play_file_and_get_classification: start_playback
            /\ position' = position + 1
            /\ control_ch' = Append(control_ch,
                   StartPlaybackMsg(entry_path(entry), Some(entry.file_name)))
            /\ presented' = Append(presented, entry_path(entry))
            /\ pc' = "wait"
       ELSE /\ pc' = "loop"
            /\ UNCHANGED <<position, control_ch, presented>>
    /\ UNCHANGED <<app_entries, batch_size, file_size_classifier, file_age_classifier,
                   dir_size_classifier, naive_bayes,
                   entries_to_process, loop_result>>
    /\ UNCHANGED <<plVars, status_ch, current_playback, bg_pc, children, most_children,
                   outcomes, rescored, startup_polls, mismatched, collected>>

\* play_file_and_get_classification: what the wait loop returns for a message
classification_of(msg) ==
    LET r == try_recv_classification(msg) IN
    IF r.result = "Ok" /\ r.value # Some("Skipped") THEN r.value ELSE None

\* The wait loop receives a Positive or Negative verdict, and
\* process_classification_result is applied to the entry
ProcessVerdict ==
    /\ pc = "wait"
    /\ status_ch # <<>>
    /\ classification_of(Head(status_ch)) # None
    /\ \E io_ok \in BOOLEAN :
         LET entry == entries_to_process[position]
             c == classification_of(Head(status_ch))[1]
             r == process_classification_result(dir_size_classifier, naive_bayes,
                      pl_entries, pl_file, entry, c, io_ok)
         IN  /\ dir_size_classifier' = r.dir_size_classifier
             /\ naive_bayes' = r.naive_bayes
             /\ pl_entries' = r.entries
             /\ pl_file' = r.file
             /\ pl_appends' = pl_appends + 1
             /\ IF r.result = "Ok"
                THEN /\ pc' = "for"
                     /\ loop_result' = loop_result
                     /\ outcomes' = Append(outcomes, c)
                     /\ rescored' = FALSE
                ELSE /\ pc' = "exit"
                     /\ loop_result' = "Err"
                     /\ outcomes' = Append(outcomes, "Io")
                     /\ rescored' = rescored
    /\ status_ch' = Tail(status_ch)
    /\ UNCHANGED <<app_entries, batch_size, file_size_classifier,
                   file_age_classifier, entries_to_process, position,
                   pl_open, pl_result>>
    /\ UNCHANGED <<control_ch, current_playback, bg_pc, children, most_children,
                   presented, startup_polls, mismatched, collected>>

\* The wait loop receives Skipped or an error: the entry is dropped
SkipEntry ==
    /\ pc = "wait"
    /\ status_ch # <<>>
    /\ classification_of(Head(status_ch)) = None
    /\ status_ch' = Tail(status_ch)
    /\ outcomes' = Append(outcomes, "Skipped")
    /\ pc' = "for"
    /\ UNCHANGED appVars_but_pc
    /\ UNCHANGED <<plVars, control_ch, current_playback, bg_pc, children, most_children,
                   presented, rescored, startup_polls, mismatched, collected>>

\* Drop for VlcController, when App goes out of scope or when another owner
\* of the controller lets go of it: Shutdown is sent and the controller thread
\* is joined
DropController ==
    /\ pc \in {"exit", "client"}
    /\ control_ch' = Append(control_ch, ShutdownMsg)
    /\ pc' = "join"
    /\ UNCHANGED appVars_but_pc
    /\ UNCHANGED <<plVars, status_ch, current_playback, bg_pc, children, most_children, histVars>>

\* What the kills and spawns of one call make of the number of live
\* subprocesses, and of the greatest number seen
RECURSIVE run_child_ops(_, _, _)
run_child_ops(alive, most, ops) ==
    IF ops = <<>> THEN [children |-> alive, most_children |-> most]
    ELSE LET now == IF Head(ops) = "spawn" THEN alive + 1 ELSE alive - 1 IN
         run_child_ops(now, cmp_max(most, now), Tail(ops))

\* VlcBackground::run: handle_control
HandleControl ==
    /\ bg_pc = "control"
    /\ LET msg == IF control_ch = <<>> THEN None ELSE Some(Head(control_ch)) IN
       \E spawn_ok \in BOOLEAN :
         LET r == handle_control(current_playback, msg, spawn_ok) IN
         /\ current_playback' = r.current_playback
         /\ status_ch' = status_ch \o r.send
         /\ children' = run_child_ops(children, most_children, r.child_ops).children
         /\ most_children' =
                run_child_ops(children, most_children, r.child_ops).most_children
         /\ control_ch' = IF control_ch = <<>> THEN control_ch ELSE Tail(control_ch)
         /\ startup_polls' = IF msg # None /\ msg[1].type = "StartPlayback"
                             THEN 0 ELSE startup_polls
    /\ bg_pc' = "poll"
    /\ UNCHANGED <<appVars, plVars, presented, outcomes, rescored, mismatched,
                   collected>>

\* VlcBackground::run: poll_status, then the sleep
PollStatus ==
    /\ bg_pc = "poll"
    /\ IF current_playback = None
       THEN UNCHANGED <<current_playback, status_ch, startup_polls, mismatched,
                        children, most_children>>
       ELSE LET state == current_playback[1] IN
            \E status \in Statuses(state.file_name) :
              LET r == poll_status(state, status)
                  named == status.ok /\ status.file_name # None
              IN  /\ current_playback' = r.current_playback
                  /\ status_ch' = status_ch \o r.send
                  /\ children' =
                        run_child_ops(children, most_children, r.child_ops).children
                  /\ most_children' =
                        run_child_ops(children, most_children, r.child_ops).most_children
                  /\ startup_polls' =
                        IF state.waiting_initial /\ ~named
                        THEN cmp_min(startup_polls + 1, startup_attempts)
                        ELSE startup_polls
                  /\ mismatched' =
                        IF state.waiting_initial /\ named
                           /\ status.file_name # state.file_name
                        THEN mismatched \cup {Last(presented)}
                        ELSE mismatched
    /\ bg_pc' = "control"
    /\ UNCHANGED <<appVars, plVars, control_ch, presented, outcomes, rescored,
                   collected>>

\* ---- the controller under any owner ----

MaxStarts == 2

\* VlcController::new: the thread is running, nothing was sent
ControllerInit ==
    /\ app_entries = <<>>
    /\ batch_size = 0
    /\ file_size_classifier = None
    /\ file_age_classifier = None
    /\ dir_size_classifier = None
    /\ naive_bayes = NaiveBayesNew
    /\ entries_to_process = <<>>
    /\ position = 0
    /\ pc = "client"
    /\ loop_result = "running"
    /\ control_ch = <<>>
    /\ status_ch = <<>>
    /\ current_playback = None
    /\ bg_pc = "control"
    /\ children = 0
    /\ most_children = 0
    /\ presented = <<>>
    /\ outcomes = <<>>
    /\ rescored = FALSE
    /\ startup_polls = 0
    /\ mismatched = {}
    /\ collected = {}

\* VlcController::start_playback, with and without an expected file name
StartPlayback ==
    /\ pc = "client"
    /\ Len(presented) < MaxStarts
    /\ \E named \in BOOLEAN :
         LET name == <<Letters[Len(presented) + 1]>>
             path == << <<"r">>, name >>
             file_name == IF named THEN Some(name) ELSE None
         IN
         /\ control_ch' = Append(control_ch, StartPlaybackMsg(path, file_name))
         /\ presented' = Append(presented, path)
    /\ UNCHANGED appVars
    /\ UNCHANGED <<plVars, status_ch, current_playback, bg_pc, children, most_children,
                   outcomes, rescored, startup_polls, mismatched, collected>>

\* VlcController::try_recv_classification when a message is waiting
TryRecvClassification ==
    /\ pc = "client"
    /\ status_ch # <<>>
    /\ status_ch' = Tail(status_ch)
    /\ outcomes' = Append(outcomes,
                          LET r == try_recv_classification(Head(status_ch)) IN
                          IF r.result = "Ok" THEN r.value[1] ELSE "Err")
    /\ UNCHANGED appVars
    /\ UNCHANGED <<plVars, control_ch, current_playback, bg_pc, children, most_children,
                   presented, rescored, startup_polls, mismatched, collected>>

\* ------------------------------------------------------------------------
\* Specifications
\* ------------------------------------------------------------------------

PlaylistNext ==
    \/ OpenPlaylist /\ UNCHANGED <<tokVars, normVars, appVars, vlcVars, histVars>>
    \/ AddPositive /\ UNCHANGED <<tokVars, normVars, appVars, vlcVars, histVars>>
    \/ AddNegative /\ UNCHANGED <<tokVars, normVars, appVars, vlcVars, histVars>>

\* The playlist on its own
PlaylistOnlyInit == PlaylistInit /\ TokIdle /\ NormIdle /\ AppIdle

SpecPlaylist == PlaylistOnlyInit /\ [][PlaylistNext]_vars

OpenNext ==
    \/ OpenPlaylist /\ UNCHANGED <<tokVars, normVars, appVars, vlcVars, histVars>>

OpenOnlyInit == PlaylistAnyFileInit /\ TokIdle /\ NormIdle /\ AppIdle

\* M3uPlaylist::open on whatever is found at the playlist's path
SpecOpen == OpenOnlyInit /\ [][OpenNext]_vars

TokNext ==
    \/ TrainStop /\ UNCHANGED <<plVars, normVars, appVars, vlcVars, histVars>>
    \/ MergeStep /\ UNCHANGED <<plVars, normVars, appVars, vlcVars, histVars>>
    \/ Tokenize /\ UNCHANGED <<plVars, normVars, appVars, vlcVars, histVars>>
    \/ GenerateNgrams /\ UNCHANGED <<plVars, normVars, appVars, vlcVars, histVars>>

\* The tokenizer on its own
TokOnlyInit == TokInit /\ PlaylistInit /\ NormIdle /\ AppIdle

SpecTokenizer == TokOnlyInit /\ [][TokNext]_vars

\* PairTokenizer::new runs its loop without waiting for anything: an
\* iteration that can be taken is taken
TrainingFairness ==
    /\ WF_vars(MergeStep /\ UNCHANGED <<plVars, normVars, appVars, vlcVars, histVars>>)
    /\ WF_vars(TrainStop /\ UNCHANGED <<plVars, normVars, appVars, vlcVars, histVars>>)

\* PairTokenizer::new alone
TrainingNext ==
    \/ TrainStop /\ UNCHANGED <<plVars, normVars, appVars, vlcVars, histVars>>
    \/ MergeStep /\ UNCHANGED <<plVars, normVars, appVars, vlcVars, histVars>>

SpecTraining == TokOnlyInit /\ [][TrainingNext]_vars /\ TrainingFairness

NormNext ==
    \/ Normalize /\ UNCHANGED <<plVars, tokVars, appVars, vlcVars, histVars>>
    \/ NormalizeAgain /\ UNCHANGED <<plVars, tokVars, appVars, vlcVars, histVars>>

NormOnlyInit == NormInit /\ PlaylistInit /\ TokIdle /\ AppIdle

\* normalize on its own
SpecNormalize == NormOnlyInit /\ [][NormNext]_vars

ControllerNext ==
    \/ StartPlayback /\ UNCHANGED <<tokVars, normVars>>
    \/ TryRecvClassification /\ UNCHANGED <<tokVars, normVars>>
    \/ DropController /\ UNCHANGED <<tokVars, normVars>>
    \/ HandleControl /\ UNCHANGED <<tokVars, normVars>>
    \/ PollStatus /\ UNCHANGED <<tokVars, normVars>>

ControllerOnlyInit == ControllerInit /\ PlaylistInit /\ TokIdle /\ NormIdle

\* The controller thread goes round its loop for ever: handle_control,
\* poll_status, sleep
ControllerFairness ==
    /\ WF_vars(HandleControl /\ UNCHANGED <<tokVars, normVars>>)
    /\ WF_vars(PollStatus /\ UNCHANGED <<tokVars, normVars>>)

\* A VlcController and its thread under an owner that starts playbacks,
\* receives and lets go of the controller when it likes
SpecController ==
    ControllerOnlyInit /\ [][ControllerNext]_vars /\ ControllerFairness

Init == AppInit /\ TokIdle /\ NormIdle

Next ==
    \/ ScoreAndDrain /\ UNCHANGED <<tokVars, normVars>>
    \/ LoopExit /\ UNCHANGED <<tokVars, normVars>>
    \/ NextEntry /\ UNCHANGED <<tokVars, normVars>>
    \/ ProcessVerdict /\ UNCHANGED <<tokVars, normVars>>
    \/ SkipEntry /\ UNCHANGED <<tokVars, normVars>>
    \/ DropController /\ UNCHANGED <<tokVars, normVars>>
    \/ HandleControl /\ UNCHANGED <<tokVars, normVars>>
    \/ PollStatus /\ UNCHANGED <<tokVars, normVars>>

\* Build mode: the interactive loop on the main thread and the controller thread
Spec == Init /\ [][Next]_vars

\* ------------------------------------------------------------------------
\* Claims
\* ------------------------------------------------------------------------

\* C1: after every successful append, re-opening the playlist file returns
\* entries equal to the in-memory entries (same count, order, polarity and
\* absolute path), whatever the file names are.
C1_RoundTrip ==
    (pl_open /\ pl_appends > 0) =>
        LET r == open(pl_file, PlaylistRoot) IN
        r.result = "Ok" /\ r.entries = pl_entries

\* The tokens of a sequence that were created by merges
MergedTokens == {merges[i][2] : i \in 1..Len(merges)}

\* C2: the vocabulary strings of the tokens tokenize returns for a string of
\* the training corpus, concatenated in order, are that string.
C2_TokenizeLossless ==
    tk_out # <<>> =>
        tokens_to_string(token_map, tk_out[1].tokens) = tk_out[1].input

\* C2's case: tokenize returned a sequence that holds a merged token
C2_Witness ==
    /\ tk_out # <<>>
    /\ \E i \in 1..Len(tk_out[1].tokens) : tk_out[1].tokens[i] \in MergedTokens
    /\ Len(tk_out[1].tokens) > 1

\* A string holds a space or a path separator next to another character
MixesSpecial(str) ==
    Len(str) > 1 /\ \E i \in 1..Len(str) : str[i] \in {" ", "/"}

VerdictStep == pc = "wait" /\ status_ch # <<>> /\ pc' # "wait"

\* The entry the for loop is at
CurrentEntry == entries_to_process[position]

PoolPaths(es) == {entry_path(es[i]) : i \in 1..Len(es)}

\* What the claim C4 says of one verdict step, for a pool that is shorter by
\* `drained` than it was before the entry was drained
VerdictEffect(drained) ==
    LET before == Len(app_entries) + Len(entries_to_process)
        path == from_abs_path(entry_path(CurrentEntry))
        positive == Head(status_ch) = ClassificationMsg("Positive")
    IN  /\ entry_path(CurrentEntry) \notin PoolPaths(app_entries')
        /\ Len(app_entries') = before - drained
        /\ pl_entries' = Append(pl_entries,
               IF positive THEN Positive(path) ELSE Negative(path))
        /\ IF positive
           THEN /\ naive_bayes'.positive_total = naive_bayes.positive_total + 1
                /\ naive_bayes'.negative_total = naive_bayes.negative_total
                /\ naive_bayes'.negative_counts = naive_bayes.negative_counts
                /\ naive_bayes'.negative_total_ngrams = naive_bayes.negative_total_ngrams
           ELSE /\ naive_bayes'.negative_total = naive_bayes.negative_total + 1
                /\ naive_bayes'.positive_total = naive_bayes.positive_total
                /\ naive_bayes'.positive_counts = naive_bayes.positive_counts
                /\ naive_bayes'.positive_total_ngrams = naive_bayes.positive_total_ngrams

IsVerdict(msg) ==
    msg \in {ClassificationMsg("Positive"), ClassificationMsg("Negative")}

NoDuplicates(seq) == \A i, j \in 1..Len(seq) : seq[i] = seq[j] => i = j

\* C5: when the wait loop ends with Skipped or with an error message, the
\* playlist (memory and file) and both classifiers are unchanged, the
\* candidate is not in the pool, the loop goes on to the next drained entry
\* without returning, and no path is ever presented twice.
C5_SkipLeavesStateAlone ==
    /\ [][(VerdictStep /\ ~IsVerdict(Head(status_ch))) =>
            /\ UNCHANGED <<pl_file, pl_entries, naive_bayes, dir_size_classifier>>
            /\ entry_path(CurrentEntry) \notin PoolPaths(app_entries')
            /\ pc' = "for"
            /\ loop_result' = "running"]_vars
    /\ [](NoDuplicates(presented))

\* C5's case: a candidate was skipped and a later candidate was presented
C5_Witness ==
    \E i \in 1..Len(outcomes) :
        /\ outcomes[i] = "Skipped"
        /\ Len(presented) > i
        /\ pc = "wait"

\* The turn of the while loop that scores, sorts and drains
DrainStep == pc = "loop" /\ pc' = "for"

\* The drained entries are the last n of a pool in ascending order of score
DrainedTail(n) ==
    /\ Len(entries_to_process') = n
    /\ Len(app_entries') = Len(app_entries) - n
    /\ PoolPaths(app_entries') \cup PoolPaths(entries_to_process') = PoolPaths(app_entries)
    /\ \A i \in 1..Len(app_entries'), j \in 1..Len(entries_to_process') :
           sum(app_entries'[i].scores) <= sum(entries_to_process'[j].scores)

\* Every collected candidate has been presented exactly once
AllPresentedOnce ==
    /\ NoDuplicates(presented)
    /\ {presented[i] : i \in 1..Len(presented)} = collected

\* Candidates for which no verdict request has returned yet
Undecided ==
    Len(app_entries) + (Len(entries_to_process) - position)
    + (IF pc = "wait" THEN 1 ELSE 0)

\* C6 as stated: every iteration drains min(pool, max(batch_size, 1)) entries
\* from the tail, and the loop ends only with an empty pool and every
\* collected candidate presented exactly once.
C6_EndsWithEmptyPool ==
    /\ [][DrainStep =>
            DrainedTail(cmp_min(Len(app_entries), cmp_max(batch_size, 1)))]_vars
    /\ [](loop_result # "running" => (app_entries = <<>> /\ AllPresentedOnce))

\* C6, amended: every iteration drains min(pool, max(batch_size, 1)) entries
\* from the tail; the number of candidates still without a returned verdict
\* request never grows and shrinks with every request that returns; the loop
\* returns Ok only with an empty pool and every collected candidate presented
\* exactly once; and it returns early, with an error, only when a playlist
\* append has failed.
C6_Progress ==
    /\ [][DrainStep =>
            DrainedTail(cmp_min(Len(app_entries), cmp_max(batch_size, 1)))]_vars
    /\ [][/\ Undecided' <= Undecided
          /\ (pc = "wait" /\ pc' # "wait") => Undecided' < Undecided
          /\ DrainStep => entries_to_process' # <<>>]_vars
    /\ [](loop_result = "Ok" => (app_entries = <<>> /\ AllPresentedOnce))
    /\ [](loop_result = "Err" => (outcomes # <<>> /\ Last(outcomes) = "Io"))
    /\ [](loop_result = "running" => pc \in {"loop", "for", "wait"})
    /\ [](NoDuplicates(presented))

\* C6's case: the loop has returned Ok after presenting at least two
\* candidates in batches of two
C6_Witness ==
    /\ loop_result = "Ok"
    /\ app_entries = <<>>
    /\ batch_size = 2
    /\ Len(presented) >= 2
    /\ Len(outcomes) = Len(presented)

\* C7: the first candidate for which a verdict is requested after a run of
\* the aggregator has a summed score that is maximal among all candidates that
\* were in the pool at that run.
C7_FirstPresentedIsMaximal ==
    (pc = "wait" /\ position = 1) =>
        \A i \in 1..Len(app_entries), j \in 1..Len(entries_to_process) :
            /\ sum(app_entries[i].scores) <= sum(CurrentEntry.scores)
            /\ sum(entries_to_process[j].scores) <= sum(CurrentEntry.scores)

\* C8 as stated: whenever a verdict is requested, the aggregator has run
\* since naive_bayes was last trained.
C8_RescoredBeforeEveryRequest == pc = "wait" => rescored

\* C8, amended: the aggregator runs once per turn of the while loop, so when a
\* verdict is requested for the first candidate of a batch, and whenever
\* batch_size is at most one, the aggregator has run since naive_bayes was
\* last trained; the later candidates of a batch are presented with the
\* ranking computed before the batch.
C8_RescoredBeforeEveryBatch ==
    (pc = "wait" /\ (position = 1 \/ batch_size <= 1)) => rescored

\* C8's case: a verdict has been applied before, and a verdict is requested
\* for the first candidate of a later batch
C8_Witness ==
    /\ pc = "wait"
    /\ position = 1
    /\ rescored
    /\ \E i \in 1..Len(outcomes) : outcomes[i] \in {"Positive", "Negative"}

\* ---- the controller thread ----

\* C9: a playback that is still waiting for its first file name has been
\* polled fewer times than the startup window allows, whether the polls
\* failed or returned no file name.
C9_StartupWindow ==
    (current_playback # None /\ current_playback[1].waiting_initial) =>
        startup_polls < (vlc_timeout * 1000) \div vlc_poll_interval

\* C10: once the first status with a file name reported another name for a
\* candidate, its playback is gone, the candidate ends as Skipped and the
\* playlist never gets an entry for it.
C10_MismatchIsSkipped ==
    \A p \in mismatched :
        /\ current_playback # None => Last(presented) # p
        /\ \A i \in 1..Len(outcomes) : presented[i] = p => outcomes[i] = "Skipped"
        /\ \A k \in 1..Len(pl_entries) : pl_entries[k].path # from_abs_path(p)

\* C10's case: a mismatched candidate has been dropped, and a later candidate
\* got a verdict
C10_Witness ==
    \E i \in 1..Len(outcomes) :
        /\ presented[i] \in mismatched
        /\ outcomes[i] = "Skipped"
        /\ Last(outcomes) \in {"Positive", "Negative"}

\* ---- playlist append errors ----

\* C11: when the append of a verdict writes nothing to the playlist file, the
\* loop returns the error at once, naive_bayes is not trained on that
\* verdict, and after the error no candidate is presented and nothing is
\* trained.
C11_AppendErrorIsFatal ==
    /\ [][(VerdictStep /\ IsVerdict(Head(status_ch)) /\ pl_file' = pl_file) =>
            /\ loop_result' = "Err"
            /\ pc' = "exit"
            /\ naive_bayes' = naive_bayes]_vars
    /\ [][loop_result = "Err" =>
            UNCHANGED <<presented, naive_bayes, loop_result, pl_file>>]_vars
    /\ [](loop_result = "Err" => pc \in {"exit", "join"})

\* C11's case: an append failed while candidates were left in the pool, and
\* the controller has been dropped since
C11_Witness ==
    /\ loop_result = "Err"
    /\ outcomes # <<>>
    /\ Last(outcomes) = "Io"
    /\ app_entries # <<>>
    /\ pc = "join"

\* ---- opening a playlist ----

\* The first line of a file: the characters before the first line end
FirstLineOf(content) ==
    LET ends == {k \in 1..Len(content) : content[k] = "\n"}
        k == IF ends = {} THEN Len(content) + 1
             ELSE CHOOSE e \in ends : \A f \in ends : e <= f
        raw == SubSeq(content, 1, k - 1)
    IN  IF k <= Len(content) /\ raw # <<>> /\ Last(raw) = "\r" THEN Front(raw) ELSE raw

\* C12: open of a missing file creates it with the header line alone and
\* returns an empty playlist; open of an existing file succeeds exactly when
\* the first line is #EXTM3U, and otherwise returns a playlist format error
\* with no playlist and no entries.
C12_OpenChecksHeader ==
    [][IF pl_file = Absent
       THEN /\ pl_file' = M3U_HEADER \o <<"\n">>
            /\ pl_result' = "Ok"
            /\ pl_open'
            /\ pl_entries' = <<>>
       ELSE /\ pl_file' = pl_file
            /\ pl_open' <=> (pl_file # <<>> /\ FirstLineOf(pl_file) = M3U_HEADER)
            /\ pl_open' <=> (pl_result' = "Ok")
            /\ ~pl_open' =>
                 /\ pl_result' \in {"EmptyPlaylistFile", "MissingHeader"}
                 /\ pl_entries' = <<>>]_vars

\* ------------------------------------------------------------------------
\* C13
\* ------------------------------------------------------------------------

\* How many playlist entries carry the normalized form of path
EntriesFor(path) ==
    Cardinality({i \in 1..Len(pl_entries) : pl_entries[i].path = normalize_path(path)})

\* The verdicts that were handed to the playlist for path
AppendsFor(path) ==
    Cardinality({i \in 1..Len(outcomes) :
                    /\ presented[i] = path
                    /\ outcomes[i] \in {"Positive", "Negative", "Io"}})

\* The state collect_files leaves: nothing drained, nothing presented
AfterCollect == pc = "loop" /\ presented = <<>> /\ entries_to_process = <<>>

PathsWith(g) ==
    {s \in {tk_corpus[i] : i \in 1..Len(tk_corpus)} :
        g \in windows(tokenize(token_map, merges, s).tokens, default_windows, <<>>)}

\* C14: every n-gram in the frequent set was observed in at least 2 distinct
\* normalized paths of the training union, also when the union holds the same
\* normalized path more than once.
C14_FrequentInTwoDistinctPaths ==
    frequent_ngrams # <<>> =>
        \A g \in frequent_ngrams[1] : Cardinality(PathsWith(g)) >= 2

\* ------------------------------------------------------------------------
\* C15
\* ------------------------------------------------------------------------

\* C15: a tokenizer trained on a corpus of exactly one string, whatever the
\* string, has an empty merge log.
C15_OneStringTrainsNoMerges ==
    Len(tk_corpus) = 1 => merges = <<>>

\* ------------------------------------------------------------------------
\* C16, C17
\* ------------------------------------------------------------------------

Chars(str) == {str[i] : i \in 1..Len(str)}

\* C16: normalization is idempotent: for every path string, normalizing the
\* output of normalize again gives the same string.
C16_NormalizeIdempotent ==
    nz_ret # <<>> => normalize(nz_ret[1]) = nz_ret[1]

\* normalize has changed its input into a string with a space and was
\* called again on it
C16_Witness ==
    /\ nz_ret # <<>>
    /\ nz_ret[1] = nz_file
    /\ " " \in Chars(nz_file)
    /\ MAIN_SEPARATOR \notin Chars(nz_file)
    /\ Len(nz_file) = 3

\* The positions of str where a maximal stretch without an alphanumeric
\* character starts
StretchStarts(str) ==
    {i \in 1..Len(str) :
        /\ ~is_alphanumeric(str[i])
        /\ i > 1 => is_alphanumeric(str[i - 1])}

\* The stretch that starts at position i
RECURSIVE StretchEnd(_, _)
StretchEnd(str, i) ==
    IF i < Len(str) /\ ~is_alphanumeric(str[i + 1]) THEN StretchEnd(str, i + 1) ELSE i

\* The maximal runs of separators, interleaved with other characters that
\* are not alphanumeric
SeparatorRuns(str) ==
    {i \in StretchStarts(str) :
        \E j \in i..StretchEnd(str, i) : str[j] = MAIN_SEPARATOR}

Separators(str) == {i \in 1..Len(str) : str[i] = MAIN_SEPARATOR}

\* C17: the output of normalize has no apostrophe and no character that is
\* not alphanumeric other than spaces and separators; no two of these are
\* adjacent, no space is at either end, and there is exactly one separator for
\* each maximal run of separators of the input.
C17_NormalizeOutputShape ==
    nz_ret # <<>> =>
        LET out == nz_ret[1] IN
        /\ \A i \in 1..Len(out) :
              is_alphanumeric(out[i]) \/ out[i] \in {" ", MAIN_SEPARATOR}
        /\ \A i \in 1..(Len(out) - 1) :
              ~(out[i] \in {" ", MAIN_SEPARATOR} /\ out[i + 1] \in {" ", MAIN_SEPARATOR})
        /\ out # <<>> => Head(out) # " " /\ Last(out) # " "
        /\ Cardinality(Separators(out)) = Cardinality(SeparatorRuns(nz_file))

\* An input with an apostrophe, a run of two separators around another
\* character, and something to strip at the end
C17_Witness ==
    /\ nz_ret # <<>>
    /\ nz_ret[1] # nz_file
    /\ "'" \in Chars(nz_file)
    /\ Cardinality(Separators(nz_file)) = 2
    /\ Cardinality(SeparatorRuns(nz_file)) = 1
    /\ nz_ret[1] = <<"a", MAIN_SEPARATOR>>

\* ------------------------------------------------------------------------
\* C18
\* ------------------------------------------------------------------------

\* The classifiers that are active, in the order the claim gives
ActiveClassifiers ==
    SelectSeq(<<"file_size", "dir_size", "file_age", "naive_bayes">>,
              LAMBDA name :
                  \/ name = "file_size" /\ file_size_classifier # None
                  \/ name = "dir_size" /\ dir_size_classifier # None
                  \/ name = "file_age" /\ file_age_classifier # None
                  \/ name = "naive_bayes")

\* The pool as the aggregator left it, before the drain split it
ScoredPool == app_entries \o entries_to_process

\* The aggregator has just run
AfterAggregator == pc = "for" /\ position = 0

\* The score of the classifier `name` for the entry, before normalization
RawScore(name, entry) ==
    calculate_score(name, file_size_classifier, dir_size_classifier,
                    file_age_classifier, naive_bayes, entry)

Column(es, c) == {es[i].scores[c] : i \in 1..Len(es)}

SomeNgrams == 1..5

\* C19: for every classifier state that train_positive and train_negative
\* reach, every n-gram and class, the log probability is the logarithm of
\* (1 + counts_c[g]) / (1 + total_ngrams_c + |V|).
C19_LaplaceDenominator ==
    \A g \in SomeNgrams, positive \in BOOLEAN :
        LET counts == IF positive THEN naive_bayes.positive_counts
                      ELSE naive_bayes.negative_counts
            total_ngrams == IF positive THEN naive_bayes.positive_total_ngrams
                            ELSE naive_bayes.negative_total_ngrams
        IN  log_probability(naive_bayes, g, positive)
                = ln(1 + count_of(counts, g))
                  - ln(1 + total_ngrams + Cardinality(naive_bayes.vocabulary))

\* ------------------------------------------------------------------------
\* C20
\* ------------------------------------------------------------------------

\* The controller thread takes Shutdown from the channel
ShutdownStep ==
    /\ bg_pc = "control"
    /\ control_ch # <<>>
    /\ Head(control_ch) = ShutdownMsg
    /\ bg_pc' = "poll"

\* C20: when the VlcController is dropped while a playback is running, the
\* Shutdown message makes the controller thread drop the current playback
\* state (which kills and reaps the subprocess), and from some point on no
\* subprocess of the controller is alive.
C20_DropKillsPlayback ==
    /\ [][ShutdownStep => current_playback' = None]_vars
    /\ (pc = "join" /\ current_playback # None) ~> [](current_playback = None)
    /\ [][(pc = "join" /\ control_ch = <<>> /\ current_playback = None)
             => current_playback' = None]_vars

\* The controller was dropped while a player was running: Shutdown waits in
\* the channel, the playback is past its start-up
C20_Witness ==
    /\ pc = "join"
    /\ current_playback # None
    /\ ~current_playback[1].waiting_initial
    /\ control_ch = <<ShutdownMsg>>

\* ------------------------------------------------------------------------
\* C21
\* ------------------------------------------------------------------------

\* The number of pool entries whose parent directory is d
PoolCount(d) == Cardinality({i \in 1..Len(app_entries) : app_entries[i].dir = d})

\* C21: every time the aggregator runs inside the loop, DirSize's count for a
\* directory is the number of pool entries in that directory, and a directory
\* without pool entries is absent from the map, after any sequence of
\* Positive, Negative and Skipped verdicts.
C21_DirSizeMatchesPool ==
    (pc = "loop" /\ app_entries # <<>> /\ dir_size_classifier # None) =>
        LET dir_counts == dir_size_classifier[1].dir_counts IN
        /\ \A d \in DOMAIN dir_counts : dir_counts[d] = PoolCount(d) /\ PoolCount(d) > 0
        /\ \A i \in 1..Len(app_entries) : app_entries[i].dir \in DOMAIN dir_counts

\* ------------------------------------------------------------------------
\* C22
\* ------------------------------------------------------------------------

\* How often the pair occurs as two adjacent tokens of a sequence
OccurrencesIn(tokens, pair) ==
    Cardinality({i \in 1..(Len(tokens) - 1) :
                    tokens[i] = pair[1] /\ tokens[i + 1] = pair[2]})

RECURSIVE SumOver(_, _)
SumOver(strings, pair) ==
    IF strings = <<>> THEN 0
    ELSE OccurrencesIn(Head(strings).tokens, pair) + SumOver(Tail(strings), pair)

NonSpecial(token) == token > Len(special_chars)

\* The pairs of tokens made so far, both members non-special
NonSpecialPairs ==
    {<<a, b>> : a, b \in {t \in 0..(Len(token_map) - 1) : NonSpecial(t)}}

\* C22: at the start of every iteration of the main loop the count stored for
\* a pair of non-special tokens is the number of its adjacent occurrences in
\* the training sequences, and no stored count is zero or negative, whatever
\* the chunking and the order in which the chunk deltas were applied.
C22_CountsMatchSequences ==
    tk_pc \in {"train", "done"} =>
        /\ \A p \in NonSpecialPairs :
              count_of(tk_counts, p) = SumOver(tk_strings, p)
        /\ \A p \in DOMAIN tk_counts : tk_counts[p] > 0 /\ p \in NonSpecialPairs

\* Two merges have rewritten a corpus of at least two sequences, and a pair
\* is still counted
C22_Witness ==
    /\ tk_pc = "train"
    /\ Len(merges) = 2
    /\ Len(tk_strings) >= 2
    /\ DOMAIN tk_counts # {}

\* ------------------------------------------------------------------------
\* C23
\* ------------------------------------------------------------------------

RECURSIVE TotalLen(_)
TotalLen(strings) ==
    IF strings = <<>> THEN 0
    ELSE Len(Head(strings).tokens) + TotalLen(Tail(strings))

RECURSIVE TotalChars(_)
TotalChars(corpus) ==
    IF corpus = <<>> THEN 0 ELSE Len(Head(corpus)) + TotalChars(Tail(corpus))

\* max(2, floor(log2(N + 1))), N the number of training strings
C23_MinFreq ==
    LET l == floor_log2(Len(tk_corpus) + 1) IN IF l > 2 THEN l ELSE 2

C23_MergeShortens ==
    merges' # merges =>
        /\ count_of(tk_counts, merges'[Len(merges')][1]) >= C23_MinFreq
        /\ TotalLen(tk_strings') < TotalLen(tk_strings)

C23_ExitState ==
    /\ Len(merges) <= TotalChars(tk_corpus)
    /\ tk_pc = "done" =>
          \A p \in NonSpecialPairs :
              /\ count_of(tk_counts, p) < C23_MinFreq
              /\ SumOver(tk_strings, p) < C23_MinFreq

\* C23: training terminates: every merge is of a pair counted at least
\* min_freq = max(2, floor(log2(N + 1))) times and makes the training
\* sequences shorter in total, there are never more merges than characters in
\* the corpus, the main loop is left, and when it is left no pair of
\* non-special tokens is counted min_freq times or more.
C23_TrainingTerminates ==
    /\ [][C23_MergeShortens]_vars
    /\ []C23_ExitState
    /\ <>(tk_pc = "done")

\* The loop was left after two merges, some pair still being counted
C23_Witness ==
    /\ tk_pc = "done"
    /\ Len(merges) = 2
    /\ DOMAIN tk_counts # {}

\* ------------------------------------------------------------------------
\* C24
\* ------------------------------------------------------------------------

\* C24: tokenize, on a string of the training corpus, returns the very token
\* sequence the training pass ended with for that string.
C24_TokenizeAgreesWithTraining ==
    /\ tk_pc = "done" =>
          \A i \in 1..Len(tk_corpus) :
              tokenize(token_map, merges, tk_corpus[i]).tokens = tk_strings[i].tokens
    /\ tk_out # <<>> =>
          \A i \in 1..Len(tk_corpus) :
              tk_corpus[i] = tk_out[1].input => tk_out[1].tokens = tk_strings[i].tokens

\* tokenize ran on a training string that two merges had rewritten
C24_Witness ==
    /\ tk_out # <<>>
    /\ Len(merges) = 2
    /\ Len(tk_out[1].tokens) < Len(tk_out[1].input) - 1

\* ------------------------------------------------------------------------
\* C25
\* ------------------------------------------------------------------------

\* Every adjacent pair of the sequence passes both tests on its pair mask
MaskCovers(t) ==
    \A i \in 1..(Len(t.tokens) - 1) :
        LET p == <<t.tokens[i], t.tokens[i + 1]>> IN
        /\ mask(p) \subseteq t.pair_mask
        /\ contains(t, p)
        /\ bloom_contains(t, mask(p))

\* The training sequences, and what tokenize holds after each merge of the log
C25_MasksCover ==
    /\ \A i \in 1..Len(tk_strings) : MaskCovers(tk_strings[i])
    /\ tk_pc = "done" =>
          \A i \in 1..Len(tk_corpus), k \in 0..Len(merges) :
              MaskCovers(tokenize(token_map, SubSeq(merges, 1, k), tk_corpus[i]))

\* A merge leaves its pair in no training sequence
C25_NoSequenceSkipped ==
    merges' # merges => SumOver(tk_strings', merges'[Len(merges')][1]) = 0

Selected == merges'[Len(merges')][1]

\* C26: the merge log is in decreasing order of pair count: the pair a merge
\* selects is counted, with the greatest count of all counted pairs and of all
\* pairs of non-special tokens in the training sequences, and no pair is
\* counted higher after the merge than the selected pair was, so the next
\* selection is of a count that is not greater.
C26_Decreasing ==
    merges' # merges =>
        /\ Selected \in DOMAIN tk_counts
        /\ \A p \in DOMAIN tk_counts : tk_counts[p] <= tk_counts[Selected]
        /\ \A p \in NonSpecialPairs : SumOver(tk_strings, p) <= tk_counts[Selected]
        /\ \A p \in DOMAIN tk_counts' : tk_counts'[p] <= tk_counts[Selected]

C26_MergeLogDecreasing == [][C26_Decreasing]_vars

\* A second merge joined the token of the first merge to another token, while
\* other pairs were counted
C26_Witness ==
    /\ Len(merges) = 2
    /\ merges[1][2] \in {merges[2][1][1], merges[2][1][2]}
    /\ Cardinality(DOMAIN tk_counts) >= 1

\* ------------------------------------------------------------------------
\* C27
\* ------------------------------------------------------------------------

\* create_token's assertions hold for every token of the map: no string was
\* inserted twice, so ids and strings correspond one to one
C27_Bijection ==
    /\ \A i, j \in 1..Len(token_map) : token_map[i] = token_map[j] => i = j
    /\ \A i \in 1..Len(token_map) : lookup(token_map, token_map[i]) = i - 1
    /\ \A i \in 1..Len(tk_strings) : \A k \in 1..Len(tk_strings[i].tokens) :
          tk_strings[i].tokens[k] \in 0..(Len(token_map) - 1)

\* The string a merge makes belongs to no token yet, and gets the next id
C27_MergeMakesNewString ==
    merges' # merges =>
        /\ lookup(token_map, merge_create_token(token_map, Selected)) = -1
        /\ merges'[Len(merges')][2] = Len(token_map)
        /\ Len(token_map') = Len(token_map) + 1

\* C27: the vocabulary stays a bijection through training: ids are 0..n-1,
\* each with a string of its own, and a merge never makes a string that
\* already belongs to a token, so create_token's assertions never fail.
C27_VocabularyBijection ==
    /\ []C27_Bijection
    /\ [][C27_MergeMakesNewString]_vars

\* Two merges were made on a corpus in which a character occurs twice
C27_Witness ==
    /\ Len(merges) = 2
    /\ Len(token_map) >= Len(special_chars) + 4
    /\ \E i \in 1..Len(tk_corpus) : \E j, k \in 1..Len(tk_corpus[i]) :
          j # k /\ tk_corpus[i][j] = tk_corpus[i][k]

\* ------------------------------------------------------------------------
\* C28
\* ------------------------------------------------------------------------

\* The main thread is waiting for the verdict of the entry it presented last
Waiting == pc = "wait"

\* One status message at most for each StartPlayback; a message or a playback
\* exists only while the main thread waits, and belongs to the entry it waits
\* for
C28_OneMessagePerPlayback ==
    /\ Len(outcomes) + Len(status_ch) <= Len(presented)
    /\ Len(status_ch) <= 1
    /\ status_ch # <<>> => Waiting /\ current_playback = None /\ control_ch = <<>>
    /\ Waiting => Len(outcomes) = Len(presented) - 1
    /\ pc \in {"loop", "for"} =>
          /\ status_ch = <<>> /\ control_ch = <<>> /\ current_playback = None
          /\ Len(outcomes) = Len(presented)
    /\ current_playback # None =>
          /\ Waiting
          /\ current_playback[1].file_name = Some(Last(Last(presented)))
          /\ entry_path(entries_to_process[position]) = Last(presented)

\* A status message is sent while the main thread waits: by handle_control for
\* the StartPlayback of the entry waited for, or by poll_status for its
\* playback, which is cleared in the same call
C28_SentForCurrentEntry ==
    Len(status_ch') > Len(status_ch) =>
        /\ Waiting /\ pc' = pc /\ presented' = presented
        /\ status_ch = <<>> /\ Len(status_ch') = 1
        /\ current_playback' = None
        /\ \/ /\ bg_pc = "control"
              /\ control_ch = <<StartPlaybackMsg(Last(presented),
                                                  Some(Last(Last(presented))))>>
           \/ /\ bg_pc = "poll"
              /\ current_playback # None
              /\ current_playback[1].file_name = Some(Last(Last(presented)))

\* The main thread sends StartPlayback on an empty status channel
C28_StartOnEmptyChannel ==
    Len(presented') > Len(presented) =>
        status_ch = <<>> /\ current_playback = None /\ control_ch = <<>>

\* C28: for each StartPlayback the controller thread publishes at most one
\* status message, and none once the playback state is cleared; the status
\* channel is empty whenever the main thread sends StartPlayback; and the
\* verdict the main thread applies to an entry comes from the playback of that
\* entry.
C28_VerdictAttribution ==
    /\ []C28_OneMessagePerPlayback
    /\ [][C28_SentForCurrentEntry]_vars
    /\ [][C28_StartOnEmptyChannel]_vars

\* The verdict of a second entry is in the channel, the first one was applied
C28_Witness ==
    /\ Waiting
    /\ Len(presented) = 2
    /\ outcomes \in {<<"Positive">>, <<"Negative">>}
    /\ status_ch # <<>>
    /\ status_ch[1].type = "Classification"

\* ------------------------------------------------------------------------
\* C29
\* ------------------------------------------------------------------------

\* Never two subprocesses at once, and one exactly while a playback is current
C29_OneChild ==
    /\ most_children <= 1
    /\ children = IF current_playback = None THEN 0 ELSE 1

\* handle_control takes a StartPlayback: whatever was playing is gone, and a
\* subprocess is alive afterwards only for the new playback
C29_RestartReplaces ==
    (bg_pc = "control" /\ bg_pc' = "poll" /\ control_ch # <<>>
     /\ Head(control_ch).type = "StartPlayback") =>
        /\ children' <= 1
        /\ most_children' <= 1
        /\ current_playback' # None =>
              /\ current_playback'[1].file_name = Head(control_ch).file_name
              /\ current_playback'[1].waiting_initial

\* Every outcome that ends a playback leaves no playback state and no
\* subprocess: a status message (classification, mismatch, timeout, failed
\* status request) and Shutdown
C29_OutcomeKills ==
    /\ Len(status_ch') > Len(status_ch) =>
          current_playback' = None /\ children' = 0
    /\ (bg_pc = "control" /\ bg_pc' = "poll" /\ control_ch # <<>>
        /\ Head(control_ch) = ShutdownMsg) =>
          current_playback' = None /\ children' = 0

\* C29: at most one player subprocess is alive at any time: a StartPlayback
\* taken while a playback is current kills and reaps the previous subprocess
\* before the new one is spawned, and every terminating outcome clears the
\* playback state and kills its subprocess.
C29_OneSubprocess ==
    /\ []C29_OneChild
    /\ [][C29_RestartReplaces]_vars
    /\ [][C29_OutcomeKills]_vars

\* A second StartPlayback was taken while the first playback was running
C29_Witness ==
    /\ Len(presented) = 2
    /\ control_ch = <<>>
    /\ outcomes = <<>> /\ status_ch = <<>>
    /\ current_playback # None
    /\ children = 1

\* ------------------------------------------------------------------------
\* C30
\* ------------------------------------------------------------------------

\* The controller thread is inside the loop of VlcBackground::run, which is
\* where thread.join() waits for it
InRunLoop == bg_pc \in {"control", "poll"}

\* C30: dropping the VlcController completes: after Shutdown is sent the run
\* loop of the controller thread exits, so the join in drop returns.
C30_DropCompletes == (pc = "join") ~> ~InRunLoop

====
